---- MODULE Spec2Model ----
(***************************************************************************)
(* Model of the MAT knowledge-graph chatbot: the TF-IDF DocumentRetriever, *)
(* the RAGSystem answer pipeline built on it, the MATChatbot query         *)
(* handler, the ChatbotEvaluator run loop and the two text-cleaning        *)
(* functions (RAGSystem._clean_response, MATScraper._clean_text).          *)
(*                                                                         *)
(* Texts of documents and queries are sequences of lower-case word tokens; *)
(* the strings handled by the cleaning functions are sequences of          *)
(* one-character strings.                                                  *)
(***************************************************************************)
EXTENDS Integers, Sequences, FiniteSets, TLC

(***************************************************************************)
(* Bounds of the model.                                                    *)
(***************************************************************************)
MaxDocs == 2
MaxK == 2
NumThreads == 2
MaxConcDocs == 1

\* the name of no exception
None == "None"

\* a field that may hold Python's None: <<>> for None, <<v>> for the value v
Nothing == <<>>

Some(v) == <<v>>

Value(o) == o[1]

(***************************************************************************)
(* Generic helpers.                                                        *)
(***************************************************************************)
Range(s) == {s[i] : i \in DOMAIN s}

Min(a, b) == IF a <= b THEN a ELSE b

Max(a, b) == IF a >= b THEN a ELSE b

SeqsUpTo(S, n) == UNION {[1..m -> S] : m \in 0..n}

RECURSIVE SumSeq(_)
SumSeq(s) == IF s = <<>> THEN 0 ELSE Head(s) + SumSeq(Tail(s))

Reverse(s) == [i \in 1..Len(s) |-> s[Len(s) + 1 - i]]

(***************************************************************************)
(* The document pool.  A row of the documents table has a text and a       *)
(* source_url; DocB shares one term with DocA, DocC consists of stop words *)
(* only and has no source_url.  A table may hold the same row twice, and   *)
(* may hold no row at all.                                                 *)
(***************************************************************************)
DocA == [text |-> <<"mat", "standards">>, source_url |-> "url1"]
DocB == [text |-> <<"the", "mat", "health">>, source_url |-> "url2"]
DocC == [text |-> <<"the">>, source_url |-> ""]

DocPool == {DocA, DocB, DocC}

Collections == SeqsUpTo(DocPool, MaxDocs)

Queries == {<<"mat", "standards">>, <<"the", "standards">>}

(***************************************************************************)
(* TfidfVectorizer(max_features=1000, stop_words='english',                *)
(* ngram_range=(1, 2)).  The pool yields fewer than 1000 features, so the  *)
(* max_features truncation never applies.                                  *)
(***************************************************************************)
StopWords == {"the"}

TokenOrder == <<"health", "mat", "recovery", "standards">>

TokenRank(t) == CHOOSE i \in 1..Len(TokenOrder) : TokenOrder[i] = t

\* the analyzer: stop words are removed, then unigrams and bigrams are formed
Analyze(text) ==
    LET kept == SelectSeq(text, LAMBDA t : t \notin StopWords)
    IN  [i \in 1..Len(kept) |-> <<kept[i]>>]
          \o [i \in 1..(IF Len(kept) = 0 THEN 0 ELSE Len(kept) - 1) |-> <<kept[i], kept[i + 1]>>]

\* lexical order of the features, which orders the columns of the matrix
FeatureKey(f) ==
    TokenRank(f[1]) * (Len(TokenOrder) + 1) + (IF Len(f) = 2 THEN TokenRank(f[2]) ELSE 0)

ColumnOf(V, f) == Cardinality({g \in V : FeatureKey(g) < FeatureKey(f)}) + 1

FeatureAt(V, c) == CHOOSE f \in V : ColumnOf(V, f) = c

TermCount(text, f) == Cardinality({i \in DOMAIN Analyze(text) : Analyze(text)[i] = f})

BuildVocabulary(texts) == UNION {Range(Analyze(texts[i])) : i \in DOMAIN texts}

DocFreq(texts, f) == Cardinality({i \in DOMAIN texts : TermCount(texts[i], f) > 0})

\* idf = ln((1 + n) / (1 + df)) + 1 in tenths, n = number of documents (rows),
\* df = document frequency (columns)
IdfTable ==
    << <<10>>,
       <<14, 10>>,
       <<17, 13, 10>>,
       <<19, 15, 12, 10>>,
       <<21, 17, 14, 12, 10>> >>

Idf(n, df) == IdfTable[n][df]


(***************************************************************************)
(* The vectorizer's fitted state is its vocabulary_ (a set of features,    *)
(* whose lexical order numbers the columns) and the idf_ vector of its     *)
(* TfidfTransformer; both are None before the first fit.  A matrix is a    *)
(* record of its rows (sequences of weights, one per column) and of the    *)
(* features its columns stand for.                                         *)
(***************************************************************************)
UnfittedVectorizer == [vocabulary |-> Nothing, idf |-> Nothing]

IdfVector(texts, V) ==
    [c \in 1..Cardinality(V) |-> Idf(Len(texts), DocFreq(texts, FeatureAt(V, c)))]

TfidfRow(text, V, idf) ==
    [c \in 1..Cardinality(V) |-> TermCount(text, FeatureAt(V, c)) * idf[c]]

\* TfidfVectorizer.fit_transform: a new TfidfTransformer replaces the old one
\* first; an empty vocabulary raises ValueError before vocabulary_ is set.
FitTransformWeighted(texts, V, idf) ==
    [raised |-> None,
     vectorizer |-> [vocabulary |-> Some(V), idf |-> Some(idf)],
     matrix |-> Some([columns |-> V,
                      rows |-> [i \in 1..Len(texts) |-> TfidfRow(texts[i], V, idf)]])]

FitTransformOver(vec, texts, V) ==
    IF V = {}
    THEN [raised |-> "ValueError",
          vectorizer |-> [vocabulary |-> vec.vocabulary, idf |-> Nothing],
          matrix |-> Nothing]
    ELSE FitTransformWeighted(texts, V, IdfVector(texts, V))

FitTransform(vec, texts) == FitTransformOver(vec, texts, BuildVocabulary(texts))

\* TfidfVectorizer.transform([query])
Transform(vec, query) ==
    IF vec.vocabulary = Nothing \/ vec.idf = Nothing
    THEN [raised |-> "NotFittedError", matrix |-> Nothing]
    ELSE IF Len(Value(vec.idf)) # Cardinality(Value(vec.vocabulary))
    THEN [raised |-> "ValueError", matrix |-> Nothing]
    ELSE [raised |-> None,
          matrix |-> Some([columns |-> Value(vec.vocabulary),
                           rows |-> <<TfidfRow(query, Value(vec.vocabulary), Value(vec.idf))>>])]

Dot(u, v) == SumSeq([c \in 1..Len(u) |-> u[c] * v[c]])

\* cosine of two rows, squared and in thousandths (monotone in the cosine, 0
\* exactly when the rows share no weighted column)
SimScale == 1000

Cosine(u, v) ==
    IF Dot(u, u) = 0 \/ Dot(v, v) = 0 THEN 0
    ELSE (Dot(u, v) * Dot(u, v) * SimScale) \div (Dot(u, u) * Dot(v, v))

NumColumns(m) == IF m.rows = <<>> THEN Cardinality(m.columns) ELSE Len(m.rows[1])

\* cosine_similarity(query_vector, document_vectors).flatten()
CosineSimilarity(qm, dm) ==
    IF dm = Nothing THEN [raised |-> "ValueError", similarities |-> <<>>]
    ELSE IF NumColumns(Value(qm)) # NumColumns(Value(dm))
    THEN [raised |-> "ValueError", similarities |-> <<>>]
    ELSE [raised |-> None,
          similarities |-> [i \in 1..Len(Value(dm).rows) |->
                               Cosine(Value(qm).rows[1], Value(dm).rows[i])]]

(***************************************************************************)
(* np.argsort(similarities): positions in ascending order of similarity.  *)
(* The default sort is not stable, so the order among equal similarities   *)
(* is fixed by the build: ties[i] is the rank the build gives position i.  *)
(* An insertion sort (numpy's choice for short arrays) keeps equal keys in *)
(* index order; a vectorised sorting network may leave them reversed.      *)
(***************************************************************************)
StableTies == [i \in 1..MaxDocs |-> i]

ReversedTies == [i \in 1..MaxDocs |-> MaxDocs + 1 - i]

TieOrders == {StableTies, ReversedTies}

Before(sims, ties, i, j) ==
    \/ sims[i] < sims[j]
    \/ sims[i] = sims[j] /\ ties[i] < ties[j]

Argsort(sims, ties) ==
    LET pos(i) == Cardinality({j \in DOMAIN sims : Before(sims, ties, j, i)}) + 1
    IN  [r \in 1..Len(sims) |-> CHOOSE i \in DOMAIN sims : pos(i) = r]

\* a slice that forgets the bound k
LastKUnbounded(s, k) == s

\* the Python slice s[-k:] for k >= 0 (s[-0:] is the whole sequence)
LastK(s, k) == IF k = 0 THEN s ELSE SubSeq(s, Max(Len(s) - k, 0) + 1, Len(s))

\* a slice that is left in the ascending order of the argsort
TopIndicesAscending(sims, ties, k) == LastK(Argsort(sims, ties), k)

\* np.argsort(similarities)[-k:][::-1]
TopIndices(sims, ties, k) == Reverse(LastK(Argsort(sims, ties), k))

\* the results loop of retrieve; row idx of the documents table is read for
\* every kept position (positions are 1-based here, 'index' is 0-based)
BuildResults(docs, sims, top) ==
    LET kept == SelectSeq(top, LAMBDA idx : sims[idx] > 0)
        rows == Value(docs)
    IN  IF kept = <<>> THEN [raised |-> None, results |-> <<>>]
        ELSE IF docs = Nothing
        THEN [raised |-> "AttributeError", results |-> <<>>]
        ELSE IF \E n \in DOMAIN kept : kept[n] > Len(rows)
        THEN [raised |-> "IndexError", results |-> <<>>]
        ELSE [raised |-> None,
              results |-> [n \in 1..Len(kept) |->
                              [text |-> rows[kept[n]].text,
                               source_url |-> rows[kept[n]].source_url,
                               similarity |-> sims[kept[n]],
                               index |-> kept[n] - 1]]]


(***************************************************************************)
(* DocumentRetriever, one call at a time.  Each operator returns the       *)
(* exception the call raises (None if it returns), the value it returns    *)
(* and the fields of the retriever it leaves behind.                       *)
(***************************************************************************)
Texts(docs) == [i \in 1..Len(docs) |-> docs[i].text]

\* a fit that raises is_fitted before the vectorizer has succeeded
FlagFirstAfterTransform(ft, dv, fitted) ==
    [raised |-> ft.raised, vectorizer |-> ft.vectorizer,
     document_vectors |-> IF ft.raised # None THEN dv ELSE ft.matrix,
     is_fitted |-> TRUE]

FitCallFlagFirst(docs, vec, dv, fitted) ==
    IF docs = Nothing
    THEN [raised |-> "ValueError", vectorizer |-> vec, document_vectors |-> dv,
          is_fitted |-> fitted]
    ELSE FlagFirstAfterTransform(FitTransform(vec, Texts(Value(docs))), dv, fitted)

\* lines 47-48 of fit, ft being what fit_transform did: an exception leaves
\* document_vectors and is_fitted as they were
FitAfterTransform(ft, dv, fitted) ==
    IF ft.raised # None
    THEN [raised |-> ft.raised, vectorizer |-> ft.vectorizer,
          document_vectors |-> dv, is_fitted |-> fitted]
    ELSE [raised |-> None, vectorizer |-> ft.vectorizer,
          document_vectors |-> ft.matrix, is_fitted |-> TRUE]

\* DocumentRetriever.fit
FitCall(docs, vec, dv, fitted) ==
    IF docs = Nothing
    THEN [raised |-> "ValueError", vectorizer |-> vec, document_vectors |-> dv,
          is_fitted |-> fitted]
    ELSE FitAfterTransform(FitTransform(vec, Texts(Value(docs))), dv, fitted)

\* a retrieve that drops the fitted flag on its way out
RetrieveOutcomeUnfitted(f, err, res) ==
    [raised |-> err, results |-> res, vectorizer |-> f.vectorizer,
     document_vectors |-> f.document_vectors, is_fitted |-> FALSE]

\* what retrieve leaves and gives back; f is the retriever after line 54
RetrieveOutcome(f, err, res) ==
    [raised |-> err, results |-> res, vectorizer |-> f.vectorizer,
     document_vectors |-> f.document_vectors, is_fitted |-> f.is_fitted]

\* line 77, br being what the results loop did
RetrievePrepared(f, br) == RetrieveOutcome(f, br.raised, br.results)

\* lines 63-77, cs being the similarities of line 60
RetrieveRanked(f, cs, docs, ties, k) ==
    IF cs.raised # None THEN RetrieveOutcome(f, cs.raised, <<>>)
    ELSE RetrievePrepared(f, BuildResults(docs, cs.similarities,
                                          TopIndices(cs.similarities, ties, k)))

\* lines 60-77, qv being the query vector of line 57
RetrieveCompared(f, qv, docs, ties, k) ==
    IF qv.raised # None THEN RetrieveOutcome(f, qv.raised, <<>>)
    ELSE RetrieveRanked(f, CosineSimilarity(qv.matrix, f.document_vectors), docs, ties, k)

\* lines 57-77
RetrieveAfterFit(f, docs, ties, query, k) ==
    IF f.raised # None THEN RetrieveOutcome(f, f.raised, <<>>)
    ELSE RetrieveCompared(f, Transform(f.vectorizer, query), docs, ties, k)

\* DocumentRetriever.retrieve
RetrieveCall(docs, vec, dv, fitted, ties, query, k) ==
    RetrieveAfterFit(IF fitted
                     THEN [raised |-> None, vectorizer |-> vec, document_vectors |-> dv,
                           is_fitted |-> fitted]
                     ELSE FitCall(docs, vec, dv, fitted),
                     docs, ties, query, k)

(***************************************************************************)
(* Character strings: sequences of one-character strings.                  *)
(***************************************************************************)
Rep(c, n) == [i \in 1..n |-> c]

WhitespaceChars == {" ", "\t", "\n"}

Positions(s, C) == {i \in DOMAIN s : s[i] \in C}

\* length of the run of whitespace s starts with, and of the run it ends with
LeadingSpace(s) ==
    LET W == Positions(s, WhitespaceChars)
    IN  CHOOSE j \in 0..Cardinality(W) : (1..j) \subseteq W /\ (j + 1) \notin W

TrailingSpace(s) ==
    LET W == Positions(s, WhitespaceChars)
    IN  CHOOSE j \in 0..Cardinality(W) :
            ((Len(s) - j + 1)..Len(s)) \subseteq W /\ (Len(s) - j) \notin W

\* str.strip()
Strip(s) == SubSeq(s, LeadingSpace(s) + 1, Len(s) - TrailingSpace(s))

\* position of the last '.' of s, 0 if there is none
LastDot(s) ==
    LET D == Positions(s, {"."})
    IN  IF D = {} THEN 0 ELSE CHOOSE m \in D : \A i \in D : i <= m

(***************************************************************************)
(* RAGSystem._clean_response                                               *)
(***************************************************************************)
ShortFragment == 10

ResponseLimit == 500

TruncationMarker == <<".", ".", ".">>

\* response.split('.')[-1]
LastSentence(s) == SubSeq(s, LastDot(s) + 1, Len(s))

\* a removal that also takes a last fragment of exactly ShortFragment characters
DropFragmentUpToThreshold(s) ==
    IF LastDot(s) > 0 /\ Len(Strip(SubSeq(s, LastDot(s) + 1, Len(s)))) <= ShortFragment
    THEN SubSeq(s, 1, LastDot(s))
    ELSE s

\* lines 202-205: with at least one '.', sentences[:-1] rejoined and followed
\* by '.' is the response up to and including its last '.'
DropIncompleteSentence(s) ==
    IF LastDot(s) > 0 /\ Len(Strip(LastSentence(s))) < ShortFragment
    THEN SubSeq(s, 1, LastDot(s))
    ELSE s

\* a limit that appends the marker to every response
LimitLengthAlwaysMarked(s) == SubSeq(s, 1, Min(ResponseLimit, Len(s))) \o TruncationMarker

\* lines 207-209
LimitLength(s) ==
    IF Len(s) > ResponseLimit
    THEN SubSeq(s, 1, ResponseLimit) \o TruncationMarker
    ELSE s

CleanResponse(s) == Strip(LimitLength(DropIncompleteSentence(s)))

(***************************************************************************)
(* MATScraper._clean_text.  Both patterns are raw strings with doubled     *)
(* backslashes: r'\\s+' matches a backslash followed by one or more 's',   *)
(* and the class [^\\w\\s.,;:!?()-] excludes the backslash, 'w', 's' and   *)
(* the listed punctuation.                                                 *)
(***************************************************************************)
RECURSIVE DropRun(_, _)
DropRun(s, c) == IF s # <<>> /\ Head(s) = c THEN DropRun(Tail(s), c) ELSE s

\* line 96: re.sub(r'\\s+', ' ', text)
RECURSIVE SubWhitespacePattern(_)
SubWhitespacePattern(s) ==
    IF s = <<>> THEN <<>>
    ELSE IF Len(s) >= 2 /\ s[1] = "\\" /\ s[2] = "s"
    THEN <<" ">> \o SubWhitespacePattern(DropRun(Tail(s), "s"))
    ELSE <<Head(s)>> \o SubWhitespacePattern(Tail(s))

KeptByPattern == {"\\", "w", "s", ".", ",", ";", ":", "!", "?", "(", ")", "-"}

\* line 99: re.sub(r'[^\\w\\s.,;:!?()-]', '', text)
SubSpecialPattern(s) == SelectSeq(s, LAMBDA c : c \in KeptByPattern)

CleanText(s) == Strip(SubSpecialPattern(SubWhitespacePattern(s)))

(***************************************************************************)
(* RAGSystem.  Fixed messages are strings of one piece; a generated text   *)
(* is a sequence of characters.  What the fact store and the generator do  *)
(* on a call is chosen by the environment.                                 *)
(***************************************************************************)
NotLoadedMessage == <<"Model not loaded. Please try again later.">>

ApologyMessage ==
    <<"I apologize, but I'm having trouble generating a response right now. Please try again.">>

StandardsContext == <<"Related MAT Standards: ", "MAT Standard 1">>

OrganizationsContext == <<"Related Organizations: ", "NHS">>

DefaultK == 3

\* "standard" in query.lower(), "organization" in query.lower()
Mentions(query, word) ==
    \E i \in DOMAIN query :
        \/ word = "standard" /\ query[i] \in {"standard", "standards"}
        \/ word = "organization" /\ query[i] \in {"organization", "organizations"}

\* KnowledgeGraph.query_graph returns rows, or no rows (also when the query
\* fails: the exception is logged and [] returned); rows may lack a name
KgOutcomes == {"rows", "null_name", "empty", "fails"}

\* the Cypher queries of lines 137 and 145, clause by clause
StandardsQuery == <<"MATCH", "(n:MATStandard)", "RETURN", "n.name", "LIMIT", "5">>

OrganizationsQuery == <<"MATCH", "(n:Organization)", "RETURN", "n.name", "LIMIT", "3">>

\* the queries _get_kg_context hands to query_graph, in order: the second
\* is sent only if the first was not sent or gave no rows
KgQueriesSent(query, kg) ==
    (IF Mentions(query, "standard") THEN <<StandardsQuery>> ELSE <<>>)
    \o (IF /\ Mentions(query, "organization")
            /\ ~(Mentions(query, "standard") /\ kg \in {"rows", "null_name"})
        THEN <<OrganizationsQuery>>
        ELSE <<>>)

\* a graph context that names the standards whatever the fact store answers
GetKgContextWithoutRows(query, kg) ==
    IF Mentions(query, "standard") THEN StandardsContext
    ELSE IF Mentions(query, "organization") THEN OrganizationsContext
    ELSE <<>>

\* RAGSystem._get_kg_context; kg is the outcome of the query it sends
GetKgContext(query, kg) ==
    IF Mentions(query, "standard") /\ kg \in {"rows", "null_name"}
    THEN (IF kg = "rows" THEN StandardsContext ELSE <<>>)
    ELSE IF Mentions(query, "organization") /\ kg \in {"rows", "null_name"}
    THEN (IF kg = "rows" THEN OrganizationsContext ELSE <<>>)
    ELSE <<>>

GeneratedTexts == {<<" ", "M", "A", "T", ".", " ", "o", "k">>}

GeneratorOutcomes == {"raises", "malformed", "text"}

\* RAGSystem._generate_with_context; the generated text is the prompt
\* followed by the completion, so the part after the last "Answer: " is the
\* completion
GenerateWithContext(gen, completion) ==
    IF gen \in {"raises", "malformed"}
    THEN ApologyMessage
    ELSE CleanResponse(Strip(completion))

(***************************************************************************)
(* RAGSystem._prepare_context: the context handed to the generator, built  *)
(* from the knowledge-graph context and the first passages retrieved.      *)
(***************************************************************************)
PassageLimit == 200

MaxPassages == 3

PassageMarker == <<".", ".", ".">>

KgLabel ==
    <<"K", "n", "o", "w", "l", "e", "d", "g", "e", " ", "G", "r", "a", "p", "h", " ", "C", "o", "n", "t", "e", "x", "t", ":", " ">>

InfoLabel ==
    <<"R", "e", "l", "e", "v", "a", "n", "t", " ", "I", "n", "f", "o", "r", "m", "a", "t", "i", "o", "n", ":", " ">>

\* the separator of line 167, a backslash and an n
PartSeparator == <<"\\", "n">>

\* sep.join(parts)
RECURSIVE JoinStrings(_, _)
JoinStrings(sep, parts) ==
    IF parts = <<>> THEN <<>>
    ELSE IF Len(parts) = 1 THEN parts[1]
    ELSE parts[1] \o sep \o JoinStrings(sep, Tail(parts))

\* the Python slice s[:n] for n >= 0
SliceTo(s, n) == SubSeq(s, 1, Min(n, Len(s)))

\* doc['text'][:200] + "..."
Passage(text) == SliceTo(text, PassageLimit) \o PassageMarker

\* line 164
DocTexts(relevant_docs) ==
    [n \in 1..Min(MaxPassages, Len(relevant_docs)) |-> Passage(relevant_docs[n].text)]

\* context parts with the passages put before the graph facts
ContextPartsDocsFirst(relevant_docs, kg_context, doc_texts) ==
    (IF relevant_docs # <<>>
     THEN <<InfoLabel \o JoinStrings(<<" ">>, doc_texts)>>
     ELSE <<>>)
    \o (IF kg_context # <<>> THEN <<KgLabel \o kg_context>> ELSE <<>>)

\* context_parts, doc_texts being the passages of line 164
ContextParts(relevant_docs, kg_context, doc_texts) ==
    (IF kg_context # <<>> THEN <<KgLabel \o kg_context>> ELSE <<>>)
    \o (IF relevant_docs # <<>>
        THEN <<InfoLabel \o JoinStrings(<<" ">>, doc_texts)>>
        ELSE <<>>)

PrepareContextCall(relevant_docs, kg_context) ==
    [doc_texts |-> DocTexts(relevant_docs),
     context |-> JoinStrings(PartSeparator,
                             ContextParts(relevant_docs, kg_context, DocTexts(relevant_docs)))]

\* the passages of the first documents of the list, at most MaxPassages of
\* them, in the order of the list, one space between two
RECURSIVE PassagesInRetrievalOrder(_, _)
PassagesInRetrievalOrder(docs, n) ==
    IF n = 0 \/ docs = <<>> THEN <<>>
    ELSE IF n = 1 \/ Len(docs) = 1 THEN Passage(docs[1].text)
    ELSE Passage(docs[1].text) \o <<" ">> \o PassagesInRetrievalOrder(Tail(docs), n - 1)

\* the 'sources' entry of the result
Sources(relevant_docs) ==
    LET with_url == SelectSeq(relevant_docs, LAMBDA d : d.source_url # "")
    IN  [n \in 1..Len(with_url) |-> with_url[n].source_url]

\* the locals of a generate_response call that never reached line 107
NoLocals ==
    [retrieved |-> FALSE, relevant_docs |-> <<>>, kg_queries |-> <<>>,
     kg_context |-> <<>>, context |-> <<>>,
     generator_called |-> FALSE, prompt_query |-> <<>>]

\* lines 117-129 of generate_response, context being what line 115 built:
\* _generate_with_context formats its prompt from the query and the context
\* and calls the generator, whatever the context is
ResponseWithContext(r, kg_context, kg_queries, context, query, gen, completion) ==
    [raised |-> None,
     result |-> [response |-> GenerateWithContext(gen, completion),
                 sources |-> Sources(r.results),
                 context_used |-> Some(Len(r.results) > 0 \/ kg_context # <<>>),
                 kg_context |-> Some(kg_context # <<>>)],
     locals |-> [retrieved |-> TRUE, relevant_docs |-> r.results, kg_queries |-> kg_queries,
                 kg_context |-> kg_context, context |-> context,
                 generator_called |-> TRUE, prompt_query |-> query],
     vectorizer |-> r.vectorizer, document_vectors |-> r.document_vectors,
     is_fitted |-> r.is_fitted]

\* a generate_response that answers without the generator when it has no
\* context
ResponseSkippingEmptyContext(r, kg_context, kg_queries, query, gen, completion) ==
    IF r.raised # None
    THEN [raised |-> r.raised,
          result |-> [response |-> <<>>, sources |-> <<>>,
                      context_used |-> Nothing, kg_context |-> Nothing],
          locals |-> NoLocals,
          vectorizer |-> r.vectorizer, document_vectors |-> r.document_vectors,
          is_fitted |-> r.is_fitted]
    ELSE IF PrepareContextCall(r.results, kg_context).context = <<>>
    THEN [raised |-> None,
          result |-> [response |-> ApologyMessage, sources |-> <<>>,
                      context_used |-> Some(FALSE), kg_context |-> Some(FALSE)],
          locals |-> [retrieved |-> TRUE, relevant_docs |-> r.results,
                      kg_queries |-> kg_queries, kg_context |-> kg_context, context |-> <<>>,
                      generator_called |-> FALSE, prompt_query |-> <<>>],
          vectorizer |-> r.vectorizer, document_vectors |-> r.document_vectors,
          is_fitted |-> r.is_fitted]
    ELSE ResponseWithContext(r, kg_context, kg_queries,
                             PrepareContextCall(r.results, kg_context).context,
                             query, gen, completion)

\* lines 109-129 of generate_response, r being what retrieve did at line 107
ResponseAfterRetrieve(r, kg_context, kg_queries, query, gen, completion) ==
    IF r.raised # None
    THEN [raised |-> r.raised,
          result |-> [response |-> <<>>, sources |-> <<>>,
                      context_used |-> Nothing, kg_context |-> Nothing],
          locals |-> NoLocals,
          vectorizer |-> r.vectorizer, document_vectors |-> r.document_vectors,
          is_fitted |-> r.is_fitted]
    ELSE ResponseWithContext(r, kg_context, kg_queries,
                             PrepareContextCall(r.results, kg_context).context,
                             query, gen, completion)

\* RAGSystem.generate_response; context_used and kg_context are absent
\* (Nothing) from the result returned while no model is loaded
GenerateResponseCall(loaded, docs, vec, dv, fitted, ties, query, use_kg, k, kg, gen, completion) ==
    IF ~loaded
    THEN [raised |-> None,
          result |-> [response |-> NotLoadedMessage, sources |-> <<>>,
                      context_used |-> Nothing, kg_context |-> Nothing],
          locals |-> NoLocals,
          vectorizer |-> vec, document_vectors |-> dv, is_fitted |-> fitted]
    ELSE ResponseAfterRetrieve(RetrieveCall(docs, vec, dv, fitted, ties, query, k),
                               IF use_kg THEN GetKgContext(query, kg) ELSE <<>>,
                               IF use_kg THEN KgQueriesSent(query, kg) ELSE <<>>,
                               query, gen, completion)

(***************************************************************************)
(* State.                                                                  *)
(***************************************************************************)
VARIABLES
    documents,          \* DocumentRetriever.documents: None or a sequence of rows
    vectorizer,         \* fitted state of DocumentRetriever.vectorizer
    document_vectors,   \* DocumentRetriever.document_vectors: None or a matrix
    is_fitted,          \* DocumentRetriever.is_fitted
    argsort_ties,       \* the order the build's argsort leaves equal keys in
    pc,                 \* per thread: the statement it is at
    frame,              \* per thread: the locals of the call it is in
    ret,                \* per thread: the outcome of its last finished call
    post_pc,            \* _clean_response harness: how often it has been applied
    post_in,            \* the string handed to _clean_response
    post_once,          \* _clean_response(post_in)
    post_twice,         \* _clean_response(_clean_response(post_in))
    text_pc,            \* _clean_text harness: "ready" or "done"
    text_in,            \* the string handed to _clean_text
    text_out,           \* _clean_text(text_in)
    clean_pc,           \* clean_data harness: "start", "table", "once", "twice"
    clean_source,       \* where its table came from: scrape_all_urls or a caller
    clean_in,           \* the table handed to clean_data
    clean_once,         \* the outcome of clean_data(clean_in)
    clean_twice,        \* the outcome of clean_data on the table of clean_once
    ctx_pc,             \* _prepare_context harness: "ready" or "done"
    ctx_docs,           \* its relevant_docs
    ctx_kg,             \* its kg_context
    ctx_out,            \* the passages it built and the context it returned
    score_pc,           \* evaluate_response harness: "ready" or "done"
    score_in,           \* its reference and generated texts
    score_out,          \* the exception it raised or the metrics it returned
    agg_pc,             \* _calculate_aggregate_metrics harness: "ready" or "done"
    agg_in,             \* its results list
    agg_out,            \* the exception it raised or the aggregates it returned
    chat_history,       \* MATChatbot.chat_history
    chat_ret,           \* the outcome of the last call on the MATChatbot
    is_loaded,          \* RAGSystem.is_loaded
    rag_ret,            \* the outcome of the last call on the RAGSystem
    eval_pc,            \* run_evaluation: "idle", "loop", "done" or "raised"
    eval_cases,         \* its test_cases
    eval_index,         \* the test case the loop is at (from 1)
    eval_results,       \* its results list
    eval_raised         \* the exception that ended it and the call that raised it

retrieverVars == <<documents, vectorizer, document_vectors, is_fitted, argsort_ties>>

threadVars == <<pc, frame, ret>>

postVars == <<post_pc, post_in, post_once, post_twice>>

cleanTextVars == <<text_pc, text_in, text_out>>

scraperVars == <<clean_pc, clean_source, clean_in, clean_once, clean_twice>>

contextVars == <<ctx_pc, ctx_docs, ctx_kg, ctx_out>>

\* the harnesses of the text functions
evaluatorVars == <<score_pc, score_in, score_out, agg_pc, agg_in, agg_out>>

chatVars == <<chat_history, chat_ret>>

moreVars == <<evaluatorVars, chatVars>>

textVars == <<cleanTextVars, scraperVars, contextVars, moreVars>>

ragVars == <<is_loaded, rag_ret>>

evalVars == <<eval_pc, eval_cases, eval_index, eval_results, eval_raised>>

\* everything but the retriever and its callers' threads
otherVars == <<postVars, textVars, ragVars, evalVars>>

Threads == 1..NumThreads

MainThread == 1

NoFrame ==
    [op |-> None, query |-> <<>>, k |-> 0, texts |-> <<>>, matrix |-> Nothing,
     query_vector |-> Nothing, vector_columns |-> Nothing, similarities |-> <<>>]

NoReturn == [op |-> None, raised |-> None, results |-> <<>>, query |-> <<>>, k |-> 0]

Returned(op, err, res, q, k) ==
    [op |-> op, raised |-> err, results |-> res, query |-> q, k |-> k]

\* DocumentRetriever.__init__ with no documents argument (as RAGSystem builds it)
InitRetriever ==
    /\ documents = Nothing
    /\ vectorizer = UnfittedVectorizer
    /\ document_vectors = Nothing
    /\ is_fitted = FALSE
    /\ argsort_ties \in TieOrders

InitThreads ==
    /\ pc = [t \in Threads |-> "idle"]
    /\ frame = [t \in Threads |-> NoFrame]
    /\ ret = [t \in Threads |-> NoReturn]

(***************************************************************************)
(* The calls of the sequential program (one thread, each call atomic).     *)
(***************************************************************************)
\* load_documents: pd.read_csv succeeded and returned the table docs
LoadDocuments(docs) ==
    /\ documents' = Some(docs)
    /\ ret' = [ret EXCEPT ![MainThread] = Returned("load_documents", None, <<>>, <<>>, 0)]
    /\ UNCHANGED <<vectorizer, document_vectors, is_fitted, argsort_ties, pc, frame>>
    /\ UNCHANGED otherVars

\* load_documents: pd.read_csv raised, the exception is logged and re-raised
LoadDocumentsFails ==
    /\ ret' = [ret EXCEPT ![MainThread] = Returned("load_documents", "Exception", <<>>, <<>>, 0)]
    /\ UNCHANGED <<retrieverVars, pc, frame>>
    /\ UNCHANGED otherVars

Fit ==
    \E f \in {FitCall(documents, vectorizer, document_vectors, is_fitted)} :
        /\ vectorizer' = f.vectorizer
        /\ document_vectors' = f.document_vectors
        /\ is_fitted' = f.is_fitted
        /\ ret' = [ret EXCEPT ![MainThread] = Returned("fit", f.raised, <<>>, <<>>, 0)]
        /\ UNCHANGED <<documents, argsort_ties, pc, frame>>
        /\ UNCHANGED otherVars

Retrieve(query, k) ==
    \E r \in {RetrieveCall(documents, vectorizer, document_vectors, is_fitted,
                            argsort_ties, query, k)} :
        /\ vectorizer' = r.vectorizer
        /\ document_vectors' = r.document_vectors
        /\ is_fitted' = r.is_fitted
        /\ ret' = [ret EXCEPT ![MainThread] = Returned("retrieve", r.raised, r.results, query, k)]
        /\ UNCHANGED <<documents, argsort_ties, pc, frame>>
        /\ UNCHANGED otherVars

vars == <<retrieverVars, threadVars, postVars, textVars, ragVars, evalVars>>

\* the parts of the state a specification does not exercise stay as built
IdlePost == post_pc = "idle" /\ post_in = <<>> /\ post_once = <<>> /\ post_twice = <<>>

IdleCleanText == text_pc = "idle" /\ text_in = <<>> /\ text_out = <<>>

NoTable == [has_columns |-> FALSE, rows |-> <<>>]

NoOutcome == [raised |-> None, table |-> NoTable]

IdleScraper ==
    /\ clean_pc = "idle"
    /\ clean_source = None
    /\ clean_in = NoTable
    /\ clean_once = NoOutcome
    /\ clean_twice = NoOutcome

NoContext == [doc_texts |-> <<>>, context |-> <<>>]

IdleContext == ctx_pc = "idle" /\ ctx_docs = <<>> /\ ctx_kg = <<>> /\ ctx_out = NoContext

NoScore == [raised |-> None, metrics |-> <<>>]

NoAggregates == [raised |-> None, aggregates |-> <<>>]

IdleEvaluator ==
    /\ score_pc = "idle" /\ score_in = <<>> /\ score_out = NoScore
    /\ agg_pc = "idle" /\ agg_in = <<>> /\ agg_out = NoAggregates

NoChatReturn == [op |-> None, query |-> <<>>, generate |-> None, response |-> <<>>]

\* MATChatbot.__init__: self.chat_history = []
InitChat == chat_history = <<>> /\ chat_ret = NoChatReturn

IdleMore == IdleEvaluator /\ InitChat

IdleText == IdleCleanText /\ IdleScraper /\ IdleContext /\ IdleMore

IdleRetriever == InitRetriever /\ argsort_ties = StableTies /\ InitThreads

NoRagReturn ==
    [op |-> None, raised |-> None, query |-> <<>>, generator |-> None, kg |-> None,
     locals |-> NoLocals,
     result |-> [response |-> <<>>, sources |-> <<>>,
                 context_used |-> Nothing, kg_context |-> Nothing]]

\* RAGSystem.__init__
InitRag == is_loaded = FALSE /\ rag_ret = NoRagReturn

NotRaised == [error |-> None, at |-> None]

\* ChatbotEvaluator.__init__
InitEval ==
    /\ eval_pc = "idle"
    /\ eval_cases = <<>>
    /\ eval_index = 0
    /\ eval_results = <<>>
    /\ eval_raised = NotRaised

Init == InitRetriever /\ InitThreads /\ IdlePost /\ IdleText /\ InitRag /\ InitEval

Next ==
    \/ \E docs \in Collections : LoadDocuments(docs)
    \/ LoadDocumentsFails
    \/ Fit
    \/ \E query \in Queries, k \in 0..MaxK : Retrieve(query, k)

Spec == Init /\ [][Next]_vars


(***************************************************************************)
(* Properties of the sequential retriever.                                 *)
(***************************************************************************)
RetrieveReturned(t) == ret[t].op = "retrieve" /\ ret[t].raised = None

\* C1: for every k >= 1, a retrieve that returns gives at most k results and
\* none of them has similarity 0.
C1_TopKBound ==
    \A t \in Threads :
        RetrieveReturned(t) /\ ret[t].k >= 1 =>
            /\ Len(ret[t].results) <= ret[t].k
            /\ \A n \in DOMAIN ret[t].results : ret[t].results[n].similarity > 0

\* a retrieve with k = 1 over two documents that both match the query
C1_Witness ==
    /\ RetrieveReturned(MainThread)
    /\ ret[MainThread].k = 1
    /\ Len(ret[MainThread].results) = 1
    /\ document_vectors # Nothing
    /\ Len(Value(document_vectors).rows) = 2
    /\ \A i \in 1..2 :
          Cosine(TfidfRow(ret[MainThread].query, Value(vectorizer.vocabulary),
                          Value(vectorizer.idf)),
                 Value(document_vectors).rows[i]) > 0

\* C2: results of exactly equal similarity come in ascending order of their
\* original document index.
C2_TieBreakAscending ==
    \A t \in Threads :
        RetrieveReturned(t) =>
            \A m, n \in DOMAIN ret[t].results :
                m < n /\ ret[t].results[m].similarity = ret[t].results[n].similarity
                    => ret[t].results[m].index < ret[t].results[n].index


\* C3 as stated: retrieve on a retriever in its never-fitted state fails
\* (here with an error of any class, the claim names NotFittedError) and
\* returns no results.
NeverFitted ==
    ~is_fitted /\ vectorizer = UnfittedVectorizer /\ document_vectors = Nothing

C3_UnfittedRetrieveRejected ==
    [][\A query \in Queries, k \in 1..MaxK :
           NeverFitted /\ Retrieve(query, k) =>
               ret'[MainThread].raised # None /\ ret'[MainThread].results = <<>>]_vars

\* C3 as amended: retrieve on a never-fitted retriever fits implicitly.  It
\* fails, with the ValueError of fit and never a NotFittedError, returns
\* nothing and stays unfitted exactly when no table is attached or the
\* attached table yields an empty vocabulary; otherwise it returns and the
\* retriever is fitted.
C3_ImplicitFit ==
    [][\A query \in Queries, k \in 0..MaxK :
           NeverFitted /\ Retrieve(query, k) =>
               IF documents = Nothing \/ BuildVocabulary(Texts(Value(documents))) = {}
               THEN /\ ret'[MainThread].raised = "ValueError"
                    /\ ret'[MainThread].results = <<>>
                    /\ ~is_fitted'
               ELSE /\ ret'[MainThread].raised = None
                    /\ is_fitted'
                    /\ document_vectors' # Nothing]_vars

\* an implicit fit whose failure surfaced: a table is attached, retrieve
\* raised the ValueError of fit and the retriever is still as constructed
C3_Witness ==
    /\ ret[MainThread].op = "retrieve"
    /\ ret[MainThread].raised = "ValueError"
    /\ documents # Nothing
    /\ NeverFitted

\* C4: fit on a table with zero rows fails and leaves the retriever not
\* fitted.
C4_EmptyFitLeavesUnfitted ==
    [][documents = Some(<<>>) /\ Fit =>
           ret'[MainThread].raised # None /\ ~is_fitted']_vars

\* C18: retrieve on a fitted index is read-only and deterministic: it leaves
\* the documents, the vectorizer, the document vectors and is_fitted as they
\* were, and when the call before it was a retrieve of the same (q, k), with
\* no fit or load_documents in between, it returns the same ordered results.
C18_RetrieveReadOnly ==
    [][\A query \in Queries, k \in 0..MaxK :
           is_fitted /\ Retrieve(query, k) =>
               /\ UNCHANGED <<documents, vectorizer, document_vectors, is_fitted>>
               /\ (/\ ret[MainThread].op = "retrieve"
                   /\ ret[MainThread].query = query
                   /\ ret[MainThread].k = k
                   => ret'[MainThread] = ret[MainThread])]_vars

\* a retrieve that ran on an index fitted earlier: the table was replaced
\* after the fit (the index has another number of rows than the table), so
\* the call did not fit, and it returned results
C18_Witness ==
    /\ RetrieveReturned(MainThread)
    /\ is_fitted
    /\ ret[MainThread].results # <<>>
    /\ Len(Value(document_vectors).rows) # Len(Value(documents))

\* similarity of the query of thread t's last call with row i of the index
IndexSimilarity(t, i) ==
    Cosine(TfidfRow(ret[t].query, Value(vectorizer.vocabulary), Value(vectorizer.idf)),
           Value(document_vectors).rows[i])

\* C19: in the list a retrieve returns the similarity never increases from
\* one result to the next, and no row of the index that was left out has a
\* strictly higher similarity than a returned one.
C19_DescendingTopK ==
    \A t \in Threads :
        RetrieveReturned(t) =>
            /\ \A m, n \in DOMAIN ret[t].results :
                  m < n => ret[t].results[m].similarity >= ret[t].results[n].similarity
            /\ \A i \in DOMAIN Value(document_vectors).rows :
                  (\A n \in DOMAIN ret[t].results : ret[t].results[n].index # i - 1)
                      => \A n \in DOMAIN ret[t].results :
                             IndexSimilarity(t, i) <= ret[t].results[n].similarity

\* a retrieve that had to choose: one result with k = 1 while a row of
\* lower, non-zero similarity was left out
C19_Witness ==
    /\ RetrieveReturned(MainThread)
    /\ ret[MainThread].k = 1
    /\ Len(ret[MainThread].results) = 1
    /\ \E i \in DOMAIN Value(document_vectors).rows :
          /\ IndexSimilarity(MainThread, i) > 0
          /\ IndexSimilarity(MainThread, i) < ret[MainThread].results[1].similarity

\* C28: whenever is_fitted is true, document_vectors is the matrix built
\* from the collection attached now, so that a retrieve never pairs the
\* similarities of an earlier collection's vectors with rows of the new one.
C28_FittedIndexIsCurrent ==
    is_fitted =>
        /\ documents # Nothing
        /\ document_vectors = FitTransform(vectorizer, Texts(Value(documents))).matrix

\* C30: the top-k bound at k = 0: on a fitted retriever a retrieve with
\* k = 0 returns an empty list, whatever the query.
C30_ZeroKReturnsNothing ==
    RetrieveReturned(MainThread) /\ ret[MainThread].k = 0 /\ is_fitted
        => ret[MainThread].results = <<>>

(***************************************************************************)
(* DocumentRetriever called from several threads (the handlers of the web  *)
(* interface run on a thread pool and the class takes no lock).  A thread  *)
(* advances one statement of fit or retrieve at a time; a call into the    *)
(* vectorizer or into numpy is one step.                                   *)
(***************************************************************************)
FitLabels == {"fit_check", "fit_transform", "fit_assign", "fit_flag"}

Goto(t, label, fr) ==
    /\ pc' = [pc EXCEPT ![t] = label]
    /\ frame' = [frame EXCEPT ![t] = fr]
    /\ UNCHANGED ret

Return(t, err, res) ==
    /\ pc' = [pc EXCEPT ![t] = "idle"]
    /\ frame' = [frame EXCEPT ![t] = NoFrame]
    /\ ret' = [ret EXCEPT ![t] = Returned(frame[t].op, err, res, frame[t].query, frame[t].k)]

\* load_documents (line 34): one assignment
ThreadLoadDocuments(t, docs) ==
    /\ pc[t] = "idle"
    /\ documents' = Some(docs)
    /\ ret' = [ret EXCEPT ![t] = Returned("load_documents", None, <<>>, <<>>, 0)]
    /\ UNCHANGED <<vectorizer, document_vectors, is_fitted, argsort_ties, pc, frame>>
    /\ UNCHANGED otherVars

CallFit(t) ==
    /\ pc[t] = "idle"
    /\ Goto(t, "fit_check", [NoFrame EXCEPT !.op = "fit"])
    /\ UNCHANGED retrieverVars
    /\ UNCHANGED otherVars

CallRetrieve(t, query, k) ==
    /\ pc[t] = "idle"
    /\ Goto(t, "ret_check", [NoFrame EXCEPT !.op = "retrieve", !.query = query, !.k = k])
    /\ UNCHANGED retrieverVars
    /\ UNCHANGED otherVars

\* fit, lines 42-46
FitCheck(t) ==
    /\ pc[t] = "fit_check"
    /\ IF documents = Nothing
       THEN Return(t, "ValueError", <<>>)
       ELSE Goto(t, "fit_transform", [frame[t] EXCEPT !.texts = Texts(Value(documents))])
    /\ UNCHANGED retrieverVars
    /\ UNCHANGED otherVars

\* fit, line 47: the call self.vectorizer.fit_transform(texts)
FitTransformStep(t) ==
    LET ft == FitTransform(vectorizer, frame[t].texts)
    IN  /\ pc[t] = "fit_transform"
        /\ vectorizer' = ft.vectorizer
        /\ IF ft.raised # None
           THEN Return(t, ft.raised, <<>>)
           ELSE Goto(t, "fit_assign", [frame[t] EXCEPT !.matrix = ft.matrix])
        /\ UNCHANGED <<documents, document_vectors, is_fitted, argsort_ties>>
        /\ UNCHANGED otherVars

\* fit, line 47: the assignment to self.document_vectors
FitAssign(t) ==
    /\ pc[t] = "fit_assign"
    /\ document_vectors' = frame[t].matrix
    /\ Goto(t, "fit_flag", frame[t])
    /\ UNCHANGED <<documents, vectorizer, is_fitted, argsort_ties>>
    /\ UNCHANGED otherVars

\* fit, line 48, and the return to the caller
FitFlag(t) ==
    /\ pc[t] = "fit_flag"
    /\ is_fitted' = TRUE
    /\ IF frame[t].op = "fit"
       THEN Return(t, None, <<>>)
       ELSE Goto(t, "ret_transform", frame[t])
    /\ UNCHANGED <<documents, vectorizer, document_vectors, argsort_ties>>
    /\ UNCHANGED otherVars

\* retrieve, lines 53-54
RetrieveCheck(t) ==
    /\ pc[t] = "ret_check"
    /\ Goto(t, IF is_fitted THEN "ret_transform" ELSE "fit_check", frame[t])
    /\ UNCHANGED retrieverVars
    /\ UNCHANGED otherVars

\* retrieve, line 57
RetrieveTransform(t) ==
    LET qv == Transform(vectorizer, frame[t].query)
    IN  /\ pc[t] = "ret_transform"
        /\ IF qv.raised # None
           THEN Return(t, qv.raised, <<>>)
           ELSE Goto(t, "ret_similarity", [frame[t] EXCEPT !.query_vector = qv.matrix])
        /\ UNCHANGED retrieverVars
        /\ UNCHANGED otherVars

\* retrieve, line 60; vector_columns notes which features the columns of
\* the document matrix read here stand for
RetrieveSimilarity(t) ==
    LET cs == CosineSimilarity(frame[t].query_vector, document_vectors)
    IN  /\ pc[t] = "ret_similarity"
        /\ IF cs.raised # None
           THEN Return(t, cs.raised, <<>>)
           ELSE Goto(t, "ret_results",
                     [frame[t] EXCEPT !.similarities = cs.similarities,
                                      !.vector_columns = Some(Value(document_vectors).columns)])
        /\ UNCHANGED retrieverVars
        /\ UNCHANGED otherVars

\* retrieve, lines 63-77
RetrieveResults(t) ==
    LET br == BuildResults(documents, frame[t].similarities,
                           TopIndices(frame[t].similarities, argsort_ties, frame[t].k))
    IN  /\ pc[t] = "ret_results"
        /\ Return(t, br.raised, br.results)
        /\ UNCHANGED retrieverVars
        /\ UNCHANGED otherVars

\* The thread that set the system up reloads and refits the index; the
\* other threads are query handlers, which call retrieve only.
Indexer == MainThread

NextConc ==
    \E t \in Threads :
        \/ t = Indexer /\ \E docs \in SeqsUpTo(DocPool, MaxConcDocs) : ThreadLoadDocuments(t, docs)
        \/ t = Indexer /\ CallFit(t)
        \/ t # Indexer /\ \E query \in Queries, k \in 0..MaxK : CallRetrieve(t, query, k)
        \/ FitCheck(t)
        \/ FitTransformStep(t)
        \/ FitAssign(t)
        \/ FitFlag(t)
        \/ RetrieveCheck(t)
        \/ RetrieveTransform(t)
        \/ RetrieveSimilarity(t)
        \/ RetrieveResults(t)

SpecConc == Init /\ [][NextConc]_vars

\* C5: at most one fit is in progress at any time, and a retrieve computes
\* its similarities only from a query vector and a document matrix over the
\* same vocabulary.
OneFitAtATime == Cardinality({t \in Threads : pc[t] \in FitLabels}) <= 1

NoMixedIndex ==
    \A t \in Threads :
        pc[t] = "ret_results" =>
            Value(frame[t].query_vector).columns = Value(frame[t].vector_columns)

C5_ExclusiveFit == OneFitAtATime /\ NoMixedIndex


(***************************************************************************)
(* RAGSystem._clean_response applied to a string and then to its own       *)
(* result.  The strings are built from a run of leading spaces, a body of  *)
(* letters, optionally a '.' and a last fragment, and trailing spaces.     *)
(***************************************************************************)
MaxPad == 2

BodyLengths ==
    {0, 5, 12} \cup {ResponseLimit - d : d \in 0..12} \cup {ResponseLimit + d : d \in 1..3}

FragmentLengths == {0, ShortFragment - 1, ShortFragment}

ResponseInputs ==
    {Rep(" ", lead) \o Rep("a", body) \o tail \o Rep(" ", trail) :
        lead \in 0..MaxPad, body \in BodyLengths, trail \in 0..1,
        tail \in {<<>>} \cup {<<".">> \o Rep("b", n) : n \in FragmentLengths}
                        \cup {<<".", " ">> \o Rep("b", n) : n \in FragmentLengths}
                        \cup {<<".">> \o Rep("b", 4) \o Rep(" ", n) \o Rep("b", 4) :
                                 n \in 1..2}}

InitPost ==
    /\ IdleRetriever /\ IdleText /\ InitRag /\ InitEval
    /\ post_pc = "ready"
    /\ post_in \in ResponseInputs
    /\ post_once = <<>>
    /\ post_twice = <<>>

CleanOnce ==
    /\ post_pc = "ready"
    /\ post_once' = CleanResponse(post_in)
    /\ post_pc' = "once"
    /\ UNCHANGED <<post_in, post_twice, retrieverVars, threadVars, textVars, ragVars, evalVars>>

CleanTwice ==
    /\ post_pc = "once"
    /\ post_twice' = CleanResponse(post_once)
    /\ post_pc' = "twice"
    /\ UNCHANGED <<post_in, post_once, retrieverVars, threadVars, textVars, ragVars, evalVars>>

NextPost == CleanOnce \/ CleanTwice

SpecPost == InitPost /\ [][NextPost]_vars

\* C9: _clean_response is idempotent.
C9_PostprocessIdempotent == post_pc = "twice" => post_twice = post_once

\* the characters of s that are not whitespace
NonSpaceCount(s) == Len(s) - Cardinality(Positions(s, WhitespaceChars))

\* C23 as stated: a last fragment (the part after the last '.') with fewer
\* than 10 non-space characters is dropped, the text being rejoined from
\* the fragments before it; one with 10 or more is kept.
C23_FewNonSpaceCharactersDropped ==
    post_pc # "ready" /\ LastDot(post_in) > 0 =>
        post_once
          = Strip(LimitLength(
                IF NonSpaceCount(SubSeq(post_in, LastDot(post_in) + 1, Len(post_in)))
                       < ShortFragment
                THEN SubSeq(post_in, 1, LastDot(post_in))
                ELSE post_in))

\* C23 as amended: the last fragment is dropped when, with the whitespace
\* at its two ends removed, it is shorter than 10 characters, the spaces
\* inside it counting; otherwise, and when the text has no '.', it is kept.
C23_ShortStrippedFragmentDropped ==
    post_pc # "ready" =>
        post_once
          = Strip(LimitLength(
                IF /\ LastDot(post_in) > 0
                   /\ Len(post_in) - LastDot(post_in)
                        - LeadingSpace(SubSeq(post_in, LastDot(post_in) + 1, Len(post_in)))
                        - TrailingSpace(SubSeq(post_in, LastDot(post_in) + 1, Len(post_in)))
                      < ShortFragment
                THEN SubSeq(post_in, 1, LastDot(post_in))
                ELSE post_in))

\* a last fragment of 8 letters around 2 spaces: fewer than 10 non-space
\* characters, 10 characters once stripped, and it was kept
C23_Witness ==
    /\ post_pc # "ready"
    /\ LastDot(post_in) > 0
    /\ NonSpaceCount(SubSeq(post_in, LastDot(post_in) + 1, Len(post_in))) < ShortFragment
    /\ Len(Strip(SubSeq(post_in, LastDot(post_in) + 1, Len(post_in)))) = ShortFragment
    /\ Len(post_in) <= ResponseLimit
    /\ post_once = Strip(post_in)

\* C24: the response returned has no whitespace at either end and is never
\* longer than 500 characters plus the marker; when the text left by the
\* removal of the last fragment is longer than 500 characters the result is
\* its first 500 characters and the marker, and otherwise it is that text
\* with no marker added.
C24_CutToLimitWithMarker ==
    post_pc # "ready" =>
        /\ post_once = <<>> \/ ({post_once[1], post_once[Len(post_once)]} \cap WhitespaceChars = {})
        /\ Len(post_once) <= ResponseLimit + Len(TruncationMarker)
        /\ IF Len(DropIncompleteSentence(post_in)) > ResponseLimit
           THEN post_once = Strip(SubSeq(DropIncompleteSentence(post_in), 1, ResponseLimit)
                                  \o TruncationMarker)
           ELSE post_once = Strip(DropIncompleteSentence(post_in))

\* a text that lost its last fragment and was still longer than the limit
C24_Witness ==
    /\ post_pc # "ready"
    /\ DropIncompleteSentence(post_in) # post_in
    /\ Len(DropIncompleteSentence(post_in)) > ResponseLimit
    /\ Len(post_once) = ResponseLimit + Len(TruncationMarker) - LeadingSpace(post_in)
    /\ LeadingSpace(post_in) > 0


(***************************************************************************)
(* MATScraper._clean_text applied to short strings over a small alphabet   *)
(* and to the string of test_clean_text.                                   *)
(***************************************************************************)
MaxTextLen == 3

TextAlphabet == {" ", "a", "s", "w", "\\", "!", "@"}

TestDirtyText ==
    <<" ", " ", "T", "h", "i", "s", " ", "i", "s", " ", " ", " ", "a", " ",
      "t", "e", "s", "t", "!", "@", "#", "$", " ", " ", " ">>

TestCleanText ==
    <<"T", "h", "i", "s", " ", "i", "s", " ", "a", " ", "t", "e", "s", "t", "!">>

InitText ==
    /\ IdleRetriever /\ IdlePost /\ InitRag /\ InitEval /\ IdleScraper /\ IdleContext
    /\ IdleMore
    /\ text_pc = "ready"
    /\ text_in \in SeqsUpTo(TextAlphabet, MaxTextLen) \cup {TestDirtyText}
    /\ text_out = <<>>

ApplyCleanText ==
    /\ text_pc = "ready"
    /\ text_out' = CleanText(text_in)
    /\ text_pc' = "done"
    /\ UNCHANGED <<text_in, scraperVars, contextVars, moreVars>>
    /\ UNCHANGED <<retrieverVars, threadVars, postVars, ragVars, evalVars>>

NextText == ApplyCleanText

SpecText == InitText /\ [][NextText]_vars

\* what C10 says _clean_text computes: every run of whitespace becomes one
\* space, every character that is not a word character, whitespace or one
\* of . , ; : ! ? ( ) - is removed, and the ends are trimmed
WordChars == {"a", "s", "w", "T", "h", "i", "e", "t"}

Punctuation == {".", ",", ";", ":", "!", "?", "(", ")", "-"}

RECURSIVE CollapseWhitespace(_)
CollapseWhitespace(s) ==
    IF s = <<>> THEN <<>>
    ELSE IF Head(s) \in WhitespaceChars
    THEN <<" ">> \o CollapseWhitespace(DropRun(DropRun(DropRun(Tail(s), " "), "\t"), "\n"))
    ELSE <<Head(s)>> \o CollapseWhitespace(Tail(s))

DocumentedCleanText(s) ==
    Strip(SelectSeq(CollapseWhitespace(s),
                    LAMBDA c : c \in WordChars \cup WhitespaceChars \cup Punctuation))

\* C10: _clean_text collapses whitespace, removes the special characters and
\* trims; the test string becomes 'This is a test!'.
C10_CleanTextAsDocumented ==
    text_pc = "done" =>
        /\ text_out = DocumentedCleanText(text_in)
        /\ text_in = TestDirtyText => text_out = TestCleanText


(***************************************************************************)
(* The RAGSystem: load_model, setup and generate_response, each call       *)
(* atomic (one caller).                                                    *)
(***************************************************************************)
MaxRagDocs == 1

RagQueries ==
    {<<"mat", "standards">>, <<"the", "recovery">>, <<"organizations">>,
     <<"mat", "standards", "organizations">>}

RagReturned(op, err, query, gen, kg, result) ==
    [op |-> op, raised |-> err, query |-> query, generator |-> gen, kg |-> kg,
     locals |-> NoLocals, result |-> result]

\* load_model: the model or else the fallback model loads (ok), or neither
LoadModel(ok) ==
    /\ is_loaded' = ok
    /\ rag_ret' = RagReturned("load_model", None, <<>>, None, None, NoRagReturn.result)
    /\ UNCHANGED <<retrieverVars, threadVars, postVars, textVars, evalVars>>

\* setup when load_documents raises
SetupLoadFails ==
    /\ rag_ret' = RagReturned("setup", "Exception", <<>>, None, None, NoRagReturn.result)
    /\ UNCHANGED <<is_loaded, retrieverVars, threadVars, postVars, textVars, evalVars>>

\* setup: load_documents reads the table docs, fit, then load_model unless
\* a model is loaded already
Setup(docs, ok) ==
    \E f \in {FitCall(Some(docs), vectorizer, document_vectors, is_fitted)} :
        /\ documents' = Some(docs)
        /\ vectorizer' = f.vectorizer
        /\ document_vectors' = f.document_vectors
        /\ is_fitted' = f.is_fitted
        /\ is_loaded' = IF f.raised # None THEN is_loaded ELSE (is_loaded \/ ok)
        /\ rag_ret' = RagReturned("setup", f.raised, <<>>, None, None, NoRagReturn.result)
        /\ UNCHANGED <<argsort_ties, threadVars, postVars, textVars, evalVars>>

GenerateResponse(query, use_kg, kg, gen, completion) ==
    \E g \in {GenerateResponseCall(is_loaded, documents, vectorizer, document_vectors,
                                    is_fitted, argsort_ties, query, use_kg, DefaultK,
                                    kg, gen, completion)} :
        /\ vectorizer' = g.vectorizer
        /\ document_vectors' = g.document_vectors
        /\ is_fitted' = g.is_fitted
        /\ rag_ret' = [RagReturned("generate_response", g.raised, query, gen, kg, g.result)
                           EXCEPT !.locals = g.locals]
        /\ UNCHANGED <<documents, argsort_ties, is_loaded, threadVars, postVars, textVars, evalVars>>

NextRag ==
    \/ \E ok \in BOOLEAN : LoadModel(ok)
    \/ SetupLoadFails
    \/ \E docs \in SeqsUpTo(DocPool, MaxRagDocs), ok \in BOOLEAN : Setup(docs, ok)
    \/ \E query \in RagQueries, use_kg \in BOOLEAN, kg \in KgOutcomes,
          gen \in GeneratorOutcomes, completion \in GeneratedTexts :
            GenerateResponse(query, use_kg, kg, gen, completion)

SpecRag == Init /\ [][NextRag]_vars

\* C6: generate_response never raises.
C6_GenerateResponseNeverRaises ==
    rag_ret.op = "generate_response" => rag_ret.raised = None

\* C8: when the generator raises or returns malformed output, the result
\* carries the apology as its response and an empty source list.
C8_GenerationFailureResult ==
    /\ rag_ret.op = "generate_response"
    /\ rag_ret.raised = None
    /\ is_loaded
    /\ rag_ret.generator \in {"raises", "malformed"}
    => /\ rag_ret.result.response = ApologyMessage
       /\ rag_ret.result.sources = <<>>


\* C22: when retrieve returns no document and the graph context is empty,
\* the composed context is empty, the generator is still called with the
\* question, and the result reports context_used false.
C22_EmptyContextStillGenerates ==
    /\ rag_ret.op = "generate_response"
    /\ rag_ret.raised = None
    /\ rag_ret.locals.retrieved
    /\ rag_ret.locals.relevant_docs = <<>>
    /\ rag_ret.locals.kg_context = <<>>
    => /\ rag_ret.locals.context = <<>>
       /\ rag_ret.locals.generator_called
       /\ rag_ret.locals.prompt_query = rag_ret.query
       /\ rag_ret.result.context_used = Some(FALSE)

\* an index that holds documents, a question none of them matches, the
\* graph asked and without rows, and a generator that returned text
C22_Witness ==
    /\ rag_ret.op = "generate_response"
    /\ rag_ret.raised = None
    /\ rag_ret.locals.retrieved
    /\ rag_ret.locals.relevant_docs = <<>>
    /\ rag_ret.locals.kg_context = <<>>
    /\ documents # Nothing /\ Value(documents) # <<>>
    /\ rag_ret.generator = "text"
    /\ rag_ret.result.response # ApologyMessage

\* a Cypher query that only reads: MATCH ... RETURN and no writing clause
ReadOnlyQuery(cypher) ==
    /\ cypher # <<>>
    /\ cypher[1] = "MATCH"
    /\ \E i \in DOMAIN cypher : cypher[i] = "RETURN"
    /\ \A i \in DOMAIN cypher :
          cypher[i] \notin {"CREATE", "MERGE", "DELETE", "DETACH", "SET", "REMOVE", "DROP"}

\* C27: when every query sent to the fact store for a question fails or
\* returns no rows, the graph context is empty, nothing is raised, and the
\* answer is generated from the retrieved passages alone with kg_context
\* false; and every query sent is a read-only MATCH ... RETURN query.
C27_GraphFailureRecovered ==
    rag_ret.op = "generate_response" =>
        /\ \A i \in DOMAIN rag_ret.locals.kg_queries :
              ReadOnlyQuery(rag_ret.locals.kg_queries[i])
        /\ (rag_ret.locals.kg_queries # <<>> /\ rag_ret.kg \in {"empty", "fails"}
            => /\ rag_ret.raised = None
               /\ rag_ret.locals.kg_context = <<>>
               /\ rag_ret.result.kg_context = Some(FALSE)
               /\ rag_ret.locals.generator_called
               /\ rag_ret.locals.context
                    = (IF rag_ret.locals.relevant_docs = <<>> THEN <<>>
                       ELSE InfoLabel
                            \o PassagesInRetrievalOrder(rag_ret.locals.relevant_docs,
                                                        MaxPassages))
               /\ rag_ret.result.context_used
                    = Some(rag_ret.locals.relevant_docs # <<>>))

\* both queries were sent and failed, and the answer came from a retrieved
\* passage
C27_Witness ==
    /\ rag_ret.op = "generate_response"
    /\ Len(rag_ret.locals.kg_queries) = 2
    /\ rag_ret.kg = "fails"
    /\ rag_ret.locals.relevant_docs # <<>>
    /\ rag_ret.generator = "text"
    /\ rag_ret.raised = None

(***************************************************************************)
(* ChatbotEvaluator.run_evaluation on its own RAGSystem: the statements    *)
(* before the loop, one step per test case, and the aggregation.           *)
(***************************************************************************)
MaxCases == 2

CaseGeneral ==
    [question |-> <<"mat", "standards">>,
     expected_answer |-> <<"MAT standards are Medication-Assisted Treatment standards.">>,
     category |-> "general"]

CasePurpose ==
    [question |-> <<"the", "recovery">>,
     expected_answer |-> <<"The aim of MAT is to provide effective treatment.">>,
     category |-> "purpose"]

TestCases == SeqsUpTo({CaseGeneral, CasePurpose}, MaxCases)

EvalAbort(err, at) ==
    /\ eval_pc' = "raised"
    /\ eval_raised' = [error |-> err, at |-> at]

EvalEnterLoop(cases) ==
    /\ eval_pc' = "loop"
    /\ eval_cases' = cases
    /\ eval_index' = 1
    /\ eval_results' = <<>>
    /\ eval_raised' = NotRaised

\* lines 101-111 with a model loaded already: setup is skipped
EvalStart(cases) ==
    /\ eval_pc = "idle"
    /\ is_loaded
    /\ EvalEnterLoop(cases)
    /\ UNCHANGED <<retrieverVars, threadVars, postVars, textVars, ragVars>>

\* lines 101-111 with no model loaded: setup runs first, here with
\* load_documents raising
EvalStartLoadFails(cases) ==
    /\ eval_pc = "idle"
    /\ ~is_loaded
    /\ EvalAbort("Exception", "setup")
    /\ eval_cases' = cases
    /\ UNCHANGED <<eval_index, eval_results>>
    /\ UNCHANGED <<retrieverVars, threadVars, postVars, textVars, ragVars>>

\* lines 101-111 with no model loaded: setup reads the table docs, fits and
\* calls load_model
EvalStartSetup(cases, docs, ok) ==
    /\ eval_pc = "idle"
    /\ ~is_loaded
    /\ \E f \in {FitCall(Some(docs), vectorizer, document_vectors, is_fitted)} :
        /\ documents' = Some(docs)
        /\ vectorizer' = f.vectorizer
        /\ document_vectors' = f.document_vectors
        /\ is_fitted' = f.is_fitted
        /\ is_loaded' = IF f.raised # None THEN is_loaded ELSE ok
        /\ IF f.raised # None
           THEN /\ EvalAbort(f.raised, "setup")
                /\ eval_cases' = cases
                /\ UNCHANGED <<eval_index, eval_results>>
           ELSE EvalEnterLoop(cases)
        /\ UNCHANGED <<argsort_ties, rag_ret, threadVars, postVars, textVars>>

\* result.get('context_used', False)
GetContextUsed(result) ==
    IF result.context_used = Nothing THEN FALSE ELSE Value(result.context_used)

\* lines 113-142: one pass of the loop
EvalCase(kg, gen, completion) ==
    /\ eval_pc = "loop"
    /\ eval_index <= Len(eval_cases)
    /\ \E case \in {eval_cases[eval_index]} :
       \E g \in {GenerateResponseCall(is_loaded, documents, vectorizer, document_vectors,
                                     is_fitted, argsort_ties, case.question, TRUE,
                                     DefaultK, kg, gen, completion)} :
        /\ vectorizer' = g.vectorizer
        /\ document_vectors' = g.document_vectors
        /\ is_fitted' = g.is_fitted
        /\ IF g.raised # None
           THEN /\ EvalAbort(g.raised, "generate_response")
                /\ UNCHANGED <<eval_cases, eval_index, eval_results>>
           ELSE /\ eval_results' = Append(eval_results,
                                     [question |-> case.question,
                                      expected |-> case.expected_answer,
                                      generated |-> g.result.response,
                                      category |-> case.category,
                                      sources_found |-> Len(g.result.sources),
                                      context_used |-> GetContextUsed(g.result)])
                /\ eval_index' = eval_index + 1
                /\ UNCHANGED <<eval_pc, eval_cases, eval_raised>>
        /\ UNCHANGED <<documents, argsort_ties, ragVars, threadVars, postVars, textVars>>

\* lines 144-154: the means divide by the number of results
EvalFinish ==
    /\ eval_pc = "loop"
    /\ eval_index > Len(eval_cases)
    /\ IF eval_results = <<>>
       THEN EvalAbort("ZeroDivisionError", "_calculate_aggregate_metrics")
       ELSE eval_pc' = "done" /\ UNCHANGED eval_raised
    /\ UNCHANGED <<eval_cases, eval_index, eval_results>>
    /\ UNCHANGED <<retrieverVars, threadVars, postVars, textVars, ragVars>>

\* the caller takes the result or the exception; the evaluator can run again
EvalReturn ==
    /\ eval_pc \in {"done", "raised"}
    /\ eval_pc' = "idle"
    /\ eval_cases' = <<>>
    /\ eval_index' = 0
    /\ eval_results' = <<>>
    /\ eval_raised' = NotRaised
    /\ UNCHANGED <<retrieverVars, threadVars, postVars, textVars, ragVars>>

NextEval ==
    \/ \E ok \in BOOLEAN : eval_pc = "idle" /\ LoadModel(ok)
    \/ \E cases \in TestCases : EvalStart(cases)
    \/ \E cases \in TestCases : EvalStartLoadFails(cases)
    \/ \E cases \in TestCases, docs \in SeqsUpTo(DocPool, MaxRagDocs), ok \in BOOLEAN :
          EvalStartSetup(cases, docs, ok)
    \/ \E kg \in KgOutcomes, gen \in GeneratorOutcomes, completion \in GeneratedTexts :
          EvalCase(kg, gen, completion)
    \/ EvalFinish
    \/ EvalReturn

SpecEval == Init /\ [][NextEval]_vars

\* C7: a test case for which the retrieval and generation pipeline raises
\* does not end the run.
C7_RunSurvivesPipelineFailure ==
    ~(eval_pc = "raised" /\ eval_raised.at = "generate_response")


(***************************************************************************)
(* MATScraper.scrape_all_urls and MATScraper.clean_data.  A table is a     *)
(* pandas DataFrame: whether it has columns at all, and its rows, each     *)
(* with its index label, source_url, text and length.  A text is a string  *)
(* (Some of a character sequence) or not a string (Nothing, read by the    *)
(* .str accessor as NaN).                                                  *)
(***************************************************************************)
MaxParagraphs == 1

MaxCallerRows == 2

MinTextLength == 20

Urls == <<"url1", "url2">>

\* paragraphs as scrape_url returns them (stripped and not empty): a text
\* cleaning leaves alone, one it shortens to the first, one that keeps a
\* backslash in front of its s's, one below the length limit, and the two
\* texts of test_clean_data
CleanParagraph == Rep("s", MinTextLength)

DirtyParagraph == Rep("s", MinTextLength) \o <<"@">>

EscapedParagraph == <<"\\", "x">> \o Rep("s", MinTextLength)

ShortParagraph == Rep("s", MinTextLength - 1)

ValidText == <<"V", "a", "l", "i", "d", " ", "t", "e", "x", "t">>

AnotherValidText ==
    <<"A", "n", "o", "t", "h", "e", "r", " ", "v", "a", "l", "i", "d", " ", "t", "e", "x", "t">>

ParagraphPool ==
    {CleanParagraph, DirtyParagraph, EscapedParagraph, ShortParagraph, ValidText,
     AnotherValidText}

Record(url, text, length) ==
    [index |-> 0, source_url |-> url, text |-> text, length |-> length]

\* pd.DataFrame(records): no records give a table without columns; the
\* index labels are 0, 1, ...
DataFrame(records) ==
    IF records = <<>> THEN NoTable
    ELSE [has_columns |-> TRUE,
          rows |-> [i \in 1..Len(records) |-> [records[i] EXCEPT !.index = i - 1]]]

\* lines 51-60: the records of the urls from url number u on; pages[u] is
\* what scrape_url returned for that url
RECURSIVE AllData(_, _)
AllData(pages, u) ==
    IF u > Len(Urls) THEN <<>>
    ELSE [n \in 1..Len(pages[u]) |->
             Record(Urls[u], Some(pages[u][n]), Len(pages[u][n]))]
         \o AllData(pages, u + 1)

\* the rows of a table at the positions in I, in table order
RowsAt(rows, I) ==
    [n \in 1..Cardinality(I) |->
        rows[CHOOSE i \in I : Cardinality({j \in I : j < i}) = n - 1]]

\* line 74: df['text'].str.len() > 0
HasText(row) == row.text # Nothing /\ Len(Value(row.text)) > 0

\* line 78: drop_duplicates(subset=['text']) keeps the first row of each text
DropDuplicates(rows) ==
    RowsAt(rows, {i \in DOMAIN rows : ~\E j \in 1..(i - 1) : rows[j].text = rows[i].text})

\* line 82: df['text'].apply(self._clean_text)
ApplyCleanTextToRows(rows) ==
    [i \in DOMAIN rows |-> [rows[i] EXCEPT !.text = Some(CleanText(Value(rows[i].text)))]]

\* line 85: df['text'].str.len() >= 20
LongEnough(row) == Len(Value(row.text)) >= MinTextLength

\* a reset that keeps the labels the rows had
KeepIndex(rows) == rows

\* line 88: reset_index(drop=True)
ResetIndex(rows) == [i \in DOMAIN rows |-> [rows[i] EXCEPT !.index = i - 1]]

\* MATScraper.clean_data; df['text'] on a table without columns raises
CleanDataCall(df) ==
    IF ~df.has_columns
    THEN [raised |-> "KeyError", table |-> NoTable]
    ELSE [raised |-> None,
          table |-> [has_columns |-> TRUE,
                     rows |-> ResetIndex(
                                 SelectSeq(
                                     ApplyCleanTextToRows(
                                         DropDuplicates(SelectSeq(df.rows, HasText))),
                                     LongEnough))]]

\* the table of test_clean_data
TestTable ==
    DataFrame(<<Record("url1", Some(ValidText), 10),
                Record("url2", Some(<<>>), 0),
                Record("url3", Some(AnotherValidText), 18),
                Record("url4", Some(ValidText), 10)>>)

\* texts a caller may put in a table: strings, the empty one too, or a value
\* that is not a string
CallerTexts == {Some(CleanParagraph), Some(ValidText), Some(<<>>), Nothing}

CallerRecord(text) == Record("url1", text, IF text = Nothing THEN 0 ELSE Len(Value(text)))

CallerTables ==
    {TestTable, [has_columns |-> TRUE, rows |-> <<>>]}
    \cup {DataFrame([i \in 1..Len(ts) |-> CallerRecord(ts[i])]) :
            ts \in SeqsUpTo(CallerTexts, MaxCallerRows)}

InitClean ==
    /\ IdleRetriever /\ IdlePost /\ IdleCleanText /\ IdleContext /\ InitRag /\ InitEval
    /\ IdleMore
    /\ clean_pc = "start"
    /\ clean_source = None
    /\ clean_in = NoTable
    /\ clean_once = NoOutcome
    /\ clean_twice = NoOutcome

notScraperVars ==
    <<retrieverVars, threadVars, postVars, cleanTextVars, contextVars, moreVars, ragVars,
      evalVars>>

\* scrape_all_urls; pages[u] is what scrape_url returns for url number u
ScrapeAllUrls(pages) ==
    /\ clean_pc = "start"
    /\ clean_pc' = "table"
    /\ clean_source' = "scrape_all_urls"
    /\ clean_in' = DataFrame(AllData(pages, 1))
    /\ UNCHANGED <<clean_once, clean_twice, notScraperVars>>

\* a caller builds the table itself
CallerTable(df) ==
    /\ clean_pc = "start"
    /\ clean_pc' = "table"
    /\ clean_source' = "caller"
    /\ clean_in' = df
    /\ UNCHANGED <<clean_once, clean_twice, notScraperVars>>

CleanData ==
    /\ clean_pc = "table"
    /\ clean_pc' = "once"
    /\ clean_once' = CleanDataCall(clean_in)
    /\ UNCHANGED <<clean_source, clean_in, clean_twice, notScraperVars>>

\* clean_data applied to the table clean_data returned
CleanDataAgain ==
    /\ clean_pc = "once"
    /\ clean_once.raised = None
    /\ clean_pc' = "twice"
    /\ clean_twice' = CleanDataCall(clean_once.table)
    /\ UNCHANGED <<clean_source, clean_in, clean_once, notScraperVars>>

NextClean ==
    \/ \E pages \in [1..Len(Urls) -> SeqsUpTo(ParagraphPool, MaxParagraphs)] :
          ScrapeAllUrls(pages)
    \/ \E df \in CallerTables : CallerTable(df)
    \/ CleanData
    \/ CleanDataAgain

SpecClean == InitClean /\ [][NextClean]_vars

CleanDataReturned == clean_pc \in {"once", "twice"} /\ clean_once.raised = None

\* C11: the texts of the rows clean_data returns are pairwise distinct.
C11_CleanedTextsDistinct ==
    CleanDataReturned =>
        \A i, j \in DOMAIN clean_once.table.rows :
            i # j => clean_once.table.rows[i].text # clean_once.table.rows[j].text

\* C12: clean_data applied to its own result returns the same rows in the
\* same order.
C12_CleanDataIdempotent ==
    clean_pc = "twice" /\ clean_twice.raised = None =>
        clean_twice.table.rows = clean_once.table.rows

\* C13: clean_data keeps exactly one row for each distinct non-empty text of
\* its input and no row with an empty text; the table of test_clean_data
\* gives 2 rows.
C13_OneRowPerDistinctText ==
    CleanDataReturned =>
        /\ Len(clean_once.table.rows)
             = Cardinality({clean_in.rows[i].text :
                               i \in {j \in DOMAIN clean_in.rows : HasText(clean_in.rows[j])}})
        /\ \A i \in DOMAIN clean_once.table.rows : HasText(clean_once.table.rows[i])
        /\ (clean_in = TestTable => Len(clean_once.table.rows) = 2)

C15_LengthIsTextLength ==
    CleanDataReturned /\ clean_source = "scrape_all_urls" =>
        \A i \in DOMAIN clean_once.table.rows :
            clean_once.table.rows[i].length = Len(Value(clean_once.table.rows[i].text))

\* C16: clean_data does not raise; it returns an empty table for a table
\* without rows, and no row whose text is not a string.
C16_EmptyAndMalformedAccepted ==
    clean_pc \in {"once", "twice"} =>
        /\ clean_once.raised = None
        /\ clean_in.rows = <<>> => clean_once.table.rows = <<>>
        /\ \A i \in DOMAIN clean_once.table.rows : clean_once.table.rows[i].text # Nothing


(***************************************************************************)
(* DocumentRetriever.retrieve_by_keywords.  Here the text of a document is *)
(* a character string.  The keywords are joined with '|' and the result is *)
(* searched for as a regular expression, ignoring case; keywords are made  *)
(* of letters, spaces, '.' and '|', so the expression is an alternation of *)
(* sequences of literal characters and '.'.                                *)
(***************************************************************************)
MaxKeywordDocs == 2

MaxKeywords == 2

MaxKeywordK == 2

DefaultKeywordK == 5

UpperCase ==
    <<"A", "B", "C", "D", "E", "F", "G", "H", "I", "J", "K", "L", "M",
      "N", "O", "P", "Q", "R", "S", "T", "U", "V", "W", "X", "Y", "Z">>

LowerCase ==
    <<"a", "b", "c", "d", "e", "f", "g", "h", "i", "j", "k", "l", "m",
      "n", "o", "p", "q", "r", "s", "t", "u", "v", "w", "x", "y", "z">>

ToLower(c) ==
    IF \E i \in DOMAIN UpperCase : UpperCase[i] = c
    THEN LowerCase[CHOOSE i \in DOMAIN UpperCase : UpperCase[i] = c]
    ELSE c

\* '|'.join(keywords)
RECURSIVE JoinKeywords(_)
JoinKeywords(keywords) ==
    IF keywords = <<>> THEN <<>>
    ELSE IF Len(keywords) = 1 THEN keywords[1]
    ELSE keywords[1] \o <<"|">> \o JoinKeywords(Tail(keywords))

\* the alternatives of the expression: the pieces between its '|'
Alternatives(pattern) ==
    LET Bars == Positions(pattern, {"|"}) \cup {0, Len(pattern) + 1}
    IN  {SubSeq(pattern, b + 1, (CHOOSE e \in Bars : e > b /\ \A x \in Bars : x > b => e <= x) - 1) :
            b \in Bars \ {Len(pattern) + 1}}

\* the alternative matches the text from position p on; '.' stands for any
\* character but a newline
MatchesAt(alt, text, p) ==
    /\ p + Len(alt) - 1 <= Len(text)
    /\ \A i \in DOMAIN alt :
          \/ alt[i] = "." /\ text[p + i - 1] # "\n"
          \/ alt[i] # "." /\ ToLower(alt[i]) = ToLower(text[p + i - 1])

\* re.search(pattern, text, re.IGNORECASE) finds a match
RegexContains(pattern, text) ==
    \E alt \in Alternatives(pattern), p \in 1..(Len(text) + 1) : MatchesAt(alt, text, p)

\* DataFrame.head(k) for k >= 0
Head_k(rows, k) == SubSeq(rows, 1, Min(k, Len(rows)))

KeywordResult(row, keywords) ==
    [text |-> row.text, source_url |-> row.source_url, similarity |-> SimScale,
     keywords_found |-> keywords]

\* the rows of lines 85-86
MatchingDocs(rows, keywords, k) ==
    Head_k(SelectSeq(rows, LAMBDA row : RegexContains(JoinKeywords(keywords), row.text)), k)

\* DocumentRetriever.retrieve_by_keywords
RetrieveByKeywordsCall(docs, keywords, k) ==
    IF docs = Nothing
    THEN [raised |-> "ValueError", results |-> <<>>]
    ELSE [raised |-> None,
          results |-> [n \in 1..Len(MatchingDocs(Value(docs), keywords, k)) |->
                          KeywordResult(MatchingDocs(Value(docs), keywords, k)[n], keywords)]]

\* the documents of tests/test_retriever.py
TestDocument1 == [text |->
    <<"M", "A", "T", " ", "s", "t", "a", "n", "d", "a", "r", "d", "s",
      " ", "a", "r", "e", " ", "i", "m", "p", "o", "r", "t", "a", "n",
      "t", " ", "f", "o", "r", " ", "t", "r", "e", "a", "t", "m", "e",
      "n", "t">>,
    source_url |-> "url1"]

TestDocument2 == [text |->
    <<"M", "e", "d", "i", "c", "a", "t", "i", "o", "n", " ", "a", "s",
      "s", "i", "s", "t", "e", "d", " ", "t", "r", "e", "a", "t", "m",
      "e", "n", "t", " ", "h", "e", "l", "p", "s", " ", "p", "a", "t",
      "i", "e", "n", "t", "s">>,
    source_url |-> "url2"]

TestDocument3 == [text |->
    <<"P", "u", "b", "l", "i", "c", " ", "h", "e", "a", "l", "t", "h",
      " ", "s", "c", "o", "t", "l", "a", "n", "d", " ", "p", "r", "o",
      "v", "i", "d", "e", "s", " ", "g", "u", "i", "d", "a", "n", "c",
      "e">>,
    source_url |-> "url3"]

TestDocument4 == [text |->
    <<"R", "e", "c", "o", "v", "e", "r", "y", " ", "i", "s", " ", "t",
      "h", "e", " ", "m", "a", "i", "n", " ", "g", "o", "a", "l", " ",
      "o", "f", " ", "M", "A", "T">>,
    source_url |-> "url4"]

TestDocuments == <<TestDocument1, TestDocument2, TestDocument3, TestDocument4>>

KeywordDocPool ==
    {[text |-> <<"m", "a", "t">>, source_url |-> "url1"],
     [text |-> <<"M", "a", "t", ".">>, source_url |-> "url2"],
     [text |-> <<"g", "o">>, source_url |-> ""]}

KeywordTables == SeqsUpTo(KeywordDocPool, MaxKeywordDocs) \cup {TestDocuments}

KeywordMAT == <<"M", "A", "T">>

KeywordTreatment == <<"t", "r", "e", "a", "t", "m", "e", "n", "t">>

KeywordPool == {KeywordMAT, KeywordTreatment, <<".">>}

RetrieveByKeywords(keywords, k) ==
    \E r \in {RetrieveByKeywordsCall(documents, keywords, k)} :
        /\ ret' = [ret EXCEPT ![MainThread] =
                      Returned("retrieve_by_keywords", r.raised, r.results, keywords, k)]
        /\ UNCHANGED <<retrieverVars, pc, frame>>
        /\ UNCHANGED otherVars

NextKeywords ==
    \/ \E docs \in KeywordTables : LoadDocuments(docs)
    \/ \E keywords \in SeqsUpTo(KeywordPool, MaxKeywords),
          k \in (0..MaxKeywordK) \cup {DefaultKeywordK} : RetrieveByKeywords(keywords, k)

SpecKeywords == Init /\ [][NextKeywords]_vars

\* the text contains the keyword as a literal substring, ignoring case
ContainsKeyword(text, keyword) ==
    \E p \in 1..(Len(text) + 1) :
        /\ p + Len(keyword) - 1 <= Len(text)
        /\ \A i \in DOMAIN keyword : ToLower(keyword[i]) = ToLower(text[p + i - 1])

\* C17: retrieve_by_keywords returns exactly the documents whose text
\* contains one of the keywords as a literal substring, ignoring case, in
\* document order, cut to the first k, each with similarity 1.0; on the test
\* documents MAT and treatment give at least the first two documents.
C17_KeywordsLiteralSubstring ==
    ret[MainThread].op = "retrieve_by_keywords" /\ ret[MainThread].raised = None =>
        /\ ret[MainThread].results
             = [n \in 1..Len(Head_k(SelectSeq(Value(documents),
                                     LAMBDA row : \E i \in DOMAIN ret[MainThread].query :
                                         ContainsKeyword(row.text, ret[MainThread].query[i])),
                                ret[MainThread].k)) |->
                   KeywordResult(Head_k(SelectSeq(Value(documents),
                                     LAMBDA row : \E i \in DOMAIN ret[MainThread].query :
                                         ContainsKeyword(row.text, ret[MainThread].query[i])),
                                ret[MainThread].k)[n], ret[MainThread].query)]
        /\ (/\ Value(documents) = TestDocuments
            /\ ret[MainThread].query = <<KeywordMAT, KeywordTreatment>>
            /\ ret[MainThread].k = DefaultKeywordK
            => /\ Len(ret[MainThread].results) >= 2
               /\ ret[MainThread].results[1].text = TestDocument1.text
               /\ ret[MainThread].results[2].text = TestDocument2.text)


(***************************************************************************)
(* RAGSystem._prepare_context on its own, over documents whose texts are   *)
(* character strings around the passage limit.                             *)
(***************************************************************************)
MaxContextDocs == 4

\* retrieved documents whose texts are just under, at and just over the limit
ContextDocPool ==
    {[text |-> Rep("a", n), source_url |-> "url1"] :
        n \in {PassageLimit - 1, PassageLimit, PassageLimit + 1}}

KgContexts == {<<>>, <<"M", "A", "T">>}

InitContext ==
    /\ IdleRetriever /\ IdlePost /\ IdleCleanText /\ IdleScraper /\ InitRag /\ InitEval
    /\ IdleMore
    /\ ctx_pc = "idle"
    /\ ctx_docs = <<>>
    /\ ctx_kg = <<>>
    /\ ctx_out = NoContext

PrepareContext(relevant_docs, kg_context) ==
    /\ ctx_pc' = "done"
    /\ ctx_docs' = relevant_docs
    /\ ctx_kg' = kg_context
    /\ ctx_out' = PrepareContextCall(relevant_docs, kg_context)
    /\ UNCHANGED <<retrieverVars, threadVars, postVars, cleanTextVars, scraperVars, moreVars,
                   ragVars, evalVars>>

NextContext ==
    \E relevant_docs \in SeqsUpTo(ContextDocPool, MaxContextDocs), kg_context \in KgContexts :
        PrepareContext(relevant_docs, kg_context)

SpecContext == InitContext /\ [][NextContext]_vars

\* C20: in the composed context each contributing document shows at most
\* the first 200 characters of its text, followed by the truncation marker
\* only when the text is longer than 200 characters; a text of 200
\* characters or fewer appears as it is, without a marker.
C20_MarkerOnlyWhenCut ==
    ctx_pc = "done" =>
        ctx_out.context
          = JoinStrings(PartSeparator,
                ContextParts(ctx_docs, ctx_kg,
                    [n \in 1..Min(MaxPassages, Len(ctx_docs)) |->
                        IF Len(ctx_docs[n].text) > PassageLimit
                        THEN SubSeq(ctx_docs[n].text, 1, PassageLimit) \o PassageMarker
                        ELSE ctx_docs[n].text]))

\* C21: the graph-facts segment, with its label, opens the context when the
\* graph facts are not empty and is absent when they are empty; after it
\* come the passages of the first 3 retrieved documents at most, in
\* retrieval order, however many documents were retrieved.
C21_FactsThenThreePassages ==
    ctx_pc = "done" =>
        ctx_out.context
          = (IF ctx_kg # <<>> THEN KgLabel \o ctx_kg ELSE <<>>)
            \o (IF ctx_kg # <<>> /\ ctx_docs # <<>> THEN PartSeparator ELSE <<>>)
            \o (IF ctx_docs # <<>>
                THEN InfoLabel \o PassagesInRetrievalOrder(ctx_docs, MaxPassages)
                ELSE <<>>)

\* graph facts and more retrieved documents than passages, the first three
\* of them of different lengths
C21_Witness ==
    /\ ctx_pc = "done"
    /\ ctx_kg # <<>>
    /\ Len(ctx_docs) > MaxPassages
    /\ Len(ctx_docs[1].text) < Len(ctx_docs[2].text)
    /\ Len(ctx_docs[2].text) < Len(ctx_docs[3].text)


(***************************************************************************)
(* ChatbotEvaluator._calculate_aggregate_metrics.  A key of the aggregates *)
(* is written as the sequence of the pieces its '_' separate               *)
(* ('rouge1_f_mean' is <<"rouge1", "f", "mean">>), so that two keys are     *)
(* the same string exactly when they are the same sequence.  A metric      *)
(* value is a number of thousandths; a quotient is kept as the fraction of *)
(* its numerator and denominator.                                          *)
(***************************************************************************)
MaxRecords == 2

\* line 158
Metrics ==
    << <<"rouge1", "f">>, <<"rouge2", "f">>, <<"rougeL", "f">>, <<"bleu">>,
       <<"keyword", "overlap">> >>

Fraction(n, d) == [num |-> n, den |-> d]

\* sum(values) / len(values)
Mean(values) == Fraction(SumSeq(values), Len(values))

\* min(values) and max(values)
MinOf(values) == CHOOSE v \in Range(values) : \A w \in Range(values) : v <= w

MaxOf(values) == CHOOSE v \in Range(values) : \A w \in Range(values) : v >= w

\* aggregates[key] = value
Put(aggregates, key, value) ==
    [k \in DOMAIN aggregates \cup {key} |-> IF k = key THEN value ELSE aggregates[k]]

\* [r[metric] for r in results], m being the place of the metric in Metrics
MetricValues(results, m) == [i \in 1..Len(results) |-> results[i].metrics[m]]

\* lines 161-165, from metric m on
RECURSIVE OverallAggregates(_, _, _)
OverallAggregates(aggregates, results, m) ==
    IF m > Len(Metrics) THEN aggregates
    ELSE OverallAggregates(
             Put(Put(Put(aggregates,
                         Metrics[m] \o <<"mean">>, Mean(MetricValues(results, m))),
                     Metrics[m] \o <<"min">>, Fraction(MinOf(MetricValues(results, m)), 1)),
                 Metrics[m] \o <<"max">>, Fraction(MaxOf(MetricValues(results, m)), 1)),
             results, m + 1)

\* a selection that keeps the records of every category
ResultsOfAnyCategory(results, category) == results

\* line 170
CategoryResults(results, category) == SelectSeq(results, LAMBDA r : r.category = category)

\* lines 171-173, from metric m on
RECURSIVE CategoryMeans(_, _, _, _)
CategoryMeans(aggregates, category, category_results, m) ==
    IF m > Len(Metrics) THEN aggregates
    ELSE CategoryMeans(Put(aggregates, category \o Metrics[m] \o <<"mean">>,
                           Mean(MetricValues(category_results, m))),
                       category, category_results, m + 1)

\* lines 169-173; order is the order in which the set of categories is
\* iterated
RECURSIVE CategoryAggregates(_, _, _)
CategoryAggregates(aggregates, results, order) ==
    IF order = <<>> THEN aggregates
    ELSE CategoryAggregates(
             CategoryMeans(aggregates, Head(order), CategoryResults(results, Head(order)), 1),
             results, Tail(order))

\* line 168
Categories(results) == {results[i].category : i \in DOMAIN results}

\* the orders in which a set can be iterated
Orders(S) == {order \in [1..Cardinality(S) -> S] : Range(order) = S}

EmptyDict == <<>>

\* ChatbotEvaluator._calculate_aggregate_metrics
CalculateAggregateMetricsCall(results, order) ==
    IF results = <<>>
    THEN [raised |-> "ZeroDivisionError", aggregates |-> EmptyDict]
    ELSE [raised |-> None,
          aggregates |-> CategoryAggregates(OverallAggregates(EmptyDict, results, 1),
                                            results, order)]

\* evaluation records: the five metrics of Metrics and the category; the
\* categories include names that are pieces of metric names
MetricRows == {<<0, 0, 0, 0, 0>>, <<1000, 500, 1000, 250, 750>>, <<400, 100, 300, 50, 1000>>}

CategoryNames == {<<"general">>, <<"keyword">>, <<"rouge1">>}

RecordPool == {[category |-> c, metrics |-> v] : c \in CategoryNames, v \in MetricRows}

InitAggregate ==
    /\ IdleRetriever /\ IdlePost /\ IdleCleanText /\ IdleScraper /\ IdleContext
    /\ InitRag /\ InitEval /\ InitChat
    /\ score_pc = "idle" /\ score_in = <<>> /\ score_out = NoScore
    /\ agg_pc = "ready"
    /\ agg_in \in SeqsUpTo(RecordPool, MaxRecords)
    /\ agg_out = NoAggregates

CalculateAggregateMetrics(order) ==
    /\ agg_pc = "ready"
    /\ agg_pc' = "done"
    /\ agg_out' = CalculateAggregateMetricsCall(agg_in, order)
    /\ UNCHANGED <<agg_in, score_pc, score_in, score_out, chatVars>>
    /\ UNCHANGED <<retrieverVars, threadVars, postVars, cleanTextVars, scraperVars,
                   contextVars, ragVars, evalVars>>

NextAggregate == \E order \in Orders(Categories(agg_in)) : CalculateAggregateMetrics(order)

SpecAggregate == InitAggregate /\ [][NextAggregate]_vars

\* the sum of metric m over the records of a category
RECURSIVE SumOver(_, _, _)
SumOver(results, category, m) ==
    IF results = <<>> THEN 0
    ELSE (IF Head(results).category = category THEN Head(results).metrics[m] ELSE 0)
         + SumOver(Tail(results), category, m)

CountOver(results, category) ==
    Cardinality({i \in DOMAIN results : results[i].category = category})

MaxScoreLen == 3

\* position of the first whitespace character of s, Len(s) + 1 if none
FirstSpace(s) ==
    IF Positions(s, WhitespaceChars) = {} THEN Len(s) + 1
    ELSE CHOOSE i \in Positions(s, WhitespaceChars) :
             \A j \in Positions(s, WhitespaceChars) : i <= j

\* str.split()
RECURSIVE Split(_)
Split(s) ==
    IF s = <<>> THEN <<>>
    ELSE IF s[1] \in WhitespaceChars THEN Split(Tail(s))
    ELSE <<SubSeq(s, 1, FirstSpace(s) - 1)>> \o Split(SubSeq(s, FirstSpace(s), Len(s)))

\* str.lower()
Lower(s) == [i \in DOMAIN s |-> ToLower(s[i])]

\* a denominator taken as it is
DenominatorUnguarded(n) == n

\* max(n, 1)
Denominator(n) == Max(n, 1)

\* the values returned once the two quotients are computed
ResponseMetrics(reference_tokens, generated_tokens, ref_words, gen_words, library) ==
    [raised |-> None,
     metrics |-> [rouge1_f |-> library.rouge1_f, rouge2_f |-> library.rouge2_f,
                  rougeL_f |-> library.rougeL_f, bleu |-> library.bleu,
                  length_ratio |-> Fraction(Len(generated_tokens),
                                            Denominator(Len(reference_tokens))),
                  keyword_overlap |-> Fraction(Cardinality(ref_words \cap gen_words),
                                               Denominator(Cardinality(ref_words)))]]

\* lines 82-97; a division by 0 raises ZeroDivisionError
EvaluateTokens(reference_tokens, generated_tokens, ref_words, gen_words, library) ==
    IF Denominator(Len(reference_tokens)) = 0 \/ Denominator(Cardinality(ref_words)) = 0
    THEN [raised |-> "ZeroDivisionError", metrics |-> <<>>]
    ELSE ResponseMetrics(reference_tokens, generated_tokens, ref_words, gen_words, library)

\* ChatbotEvaluator.evaluate_response
EvaluateResponseCall(reference, generated, library) ==
    EvaluateTokens(Split(reference), Split(generated),
                   Range(Split(Lower(reference))), Range(Split(Lower(generated))), library)

\* what rouge_scorer.score and sentence_bleu return
LibraryScores ==
    {[rouge1_f |-> 0, rouge2_f |-> 0, rougeL_f |-> 0, bleu |-> 0],
     [rouge1_f |-> 600, rouge2_f |-> 400, rougeL_f |-> 500, bleu |-> 300]}

ScoreAlphabet == {"A", "a", " "}

\* the reference of the example: "A B C D"
ExampleReference == <<"A", " ", "B", " ", "C", " ", "D">>

ScoreTexts == SeqsUpTo(ScoreAlphabet, MaxScoreLen) \cup {ExampleReference}

InitScore ==
    /\ IdleRetriever /\ IdlePost /\ IdleCleanText /\ IdleScraper /\ IdleContext
    /\ InitRag /\ InitEval /\ InitChat
    /\ agg_pc = "idle" /\ agg_in = <<>> /\ agg_out = NoAggregates
    /\ score_pc = "ready"
    /\ score_in \in [reference : ScoreTexts, generated : ScoreTexts]
    /\ score_out = NoScore

EvaluateResponse(library) ==
    /\ score_pc = "ready"
    /\ score_pc' = "done"
    /\ score_out' = EvaluateResponseCall(score_in.reference, score_in.generated, library)
    /\ UNCHANGED <<score_in, agg_pc, agg_in, agg_out, chatVars>>
    /\ UNCHANGED <<retrieverVars, threadVars, postVars, cleanTextVars, scraperVars,
                   contextVars, ragVars, evalVars>>

NextScore == \E library \in LibraryScores : EvaluateResponse(library)

SpecScore == InitScore /\ [][NextScore]_vars

MaxHistory == 12

HistoryLimit == 10

ErrorResponse == <<"I apologize, but I encountered an error. Please try again.">>

ChatAnswer == <<"MAT", "ok">>

\* a question, and queries that are empty once stripped
ChatQuestion == <<"m", "a", "t">>

ChatQueries == {ChatQuestion, <<>>, <<" ", " ">>}

Exchange(query, response, sources) ==
    [query |-> query, response |-> response, sources |-> sources]

\* lines 72-83: the exchange is appended and the history cut to its last 10
AppendExchange(history, query) ==
    IF Len(history) + 1 > HistoryLimit
    THEN LastK(Append(history, Exchange(query, ChatAnswer, <<"url1">>)), HistoryLimit)
    ELSE Append(history, Exchange(query, ChatAnswer, <<"url1">>))

\* lines 87-95: the error exchange is appended
AppendErrorExchange(history, query) == Append(history, Exchange(query, ErrorResponse, <<>>))

\* MATChatbot.process_query
ProcessQueryCall(history, query, generate) ==
    IF Strip(query) = <<>> THEN history
    ELSE IF generate = "returns" THEN AppendExchange(history, query)
    ELSE AppendErrorExchange(history, query)

InitChatbot ==
    /\ IdleRetriever /\ IdlePost /\ IdleCleanText /\ IdleScraper /\ IdleContext
    /\ IdleEvaluator /\ InitRag /\ InitEval
    /\ chat_history = <<>>
    /\ chat_ret = NoChatReturn

ProcessQuery(query, generate) ==
    /\ Len(chat_history) < MaxHistory
    /\ chat_history' = ProcessQueryCall(chat_history, query, generate)
    /\ chat_ret' = [op |-> "process_query", query |-> query, generate |-> generate,
                    response |-> <<>>]
    /\ UNCHANGED <<retrieverVars, threadVars, postVars, cleanTextVars, scraperVars,
                   contextVars, evaluatorVars, ragVars, evalVars>>

ClearChat ==
    /\ chat_history' = <<>>
    /\ chat_ret' = [op |-> "clear_chat", query |-> <<>>, generate |-> None,
                    response |-> <<>>]
    /\ UNCHANGED <<retrieverVars, threadVars, postVars, cleanTextVars, scraperVars,
                   contextVars, evaluatorVars, ragVars, evalVars>>

NextChat ==
    \/ \E query \in ChatQueries, generate \in {"returns", "raises"} : ProcessQuery(query, generate)
    \/ ClearChat

SpecChat == InitChatbot /\ [][NextChat]_vars

\* C29: after any sequence of process_query and clear_chat calls the chat
\* history holds at most 10 exchanges, also when generate_response raised
\* and the error exchange was recorded; a blank query leaves the history as
\* it was and clear_chat empties it.
C29_HistoryAtMostTen ==
    [][/\ Len(chat_history') <= HistoryLimit
       /\ \A query \in ChatQueries, generate \in {"returns", "raises"} :
             Strip(query) = <<>> /\ ProcessQuery(query, generate)
                 => chat_history' = chat_history
       /\ (ClearChat => chat_history' = <<>>)]_vars

====
